---- MODULE Spec2Model ----
(***************************************************************************)
(* Financial projection and valuation engine of the Tesla model backend:   *)
(* services/financial_calculator.py, services/enhanced_financial_          *)
(* calculator.py, data/tesla_data.py and the model route of server.py.     *)
(*                                                                         *)
(* Number representation.  The program computes in IEEE doubles; the model *)
(* computes in fixed point:                                                *)
(*   money    integer multiples of 100,000 dollars                         *)
(*   rates    integer basis points (0.20 is 2000)                          *)
(*   shares   integer multiples of 10,000 shares                           *)
(*   prices   integer cents per share                                      *)
(* A product money * rate is (money * rate) \div 10000, rounded down. Sums,*)
(* differences, copies and comparisons are exact, as they are for the      *)
(* magnitudes the program handles.  A Python division by zero raises       *)
(* ZeroDivisionError; the model returns a record with raised = TRUE.       *)
(***************************************************************************)
EXTENDS Integers, Sequences, FiniteSets, TLC

\* floor(a * b / c) for c > 0, computed without forming a * b
MulDiv(a, b, c) == (a \div c) * b + ((a % c) * b) \div c

\* Python a * b / c on reals, rounded down: the sign of c is normalised first
Quot(a, b, c) == IF c > 0 THEN MulDiv(a, b, c) ELSE MulDiv(0 - a, b, 0 - c)

\* floor((q * d + r) * 10^k / d) for d > 0 and 0 <= r < d, by long division
RECURSIVE DivDigits(_, _, _, _)
DivDigits(q, r, d, k) ==
  IF k = 0 THEN q ELSE DivDigits(q * 10 + (r * 10) \div d, (r * 10) % d, d, k - 1)

\* Python n / d as a rate in basis points, rounded down; d # 0
RateOf(n, d) ==
  IF d > 0 THEN DivDigits(n \div d, n % d, d, 4)
           ELSE DivDigits((0 - n) \div (0 - d), (0 - n) % (0 - d), 0 - d, 4)

\* x * r for a rate r in basis points, rounded down
MulBP(x, r) == MulDiv(x, r, 10000)

\* (days / 365) * x, rounded down
DaysOf(days, x) == MulDiv(x, days, 365)

Min2(a, b) == IF a <= b THEN a ELSE b
Max2(a, b) == IF a >= b THEN a ELSE b
Abs(x) == IF x < 0 THEN 0 - x ELSE x

\* Python dict.get(key, default) on a dict modelled as a function
DictGet(d, k, default) == IF k \in DOMAIN d THEN d[k] ELSE default

\* Python truthiness of a dict: the empty dict is falsy
Truthy(d) == DOMAIN d # {}

EmptyDict == <<>>

\* an Optional value is a sequence of length 0 (None) or 1
None == <<>>
Some(x) == <<x>>
IsNone(o) == Len(o) = 0
The(o) == o[1]

ZeroDivisionError == [raised |-> TRUE, error |-> "ZeroDivisionError"]
IndexError == [raised |-> TRUE, error |-> "IndexError"]
KeyError == [raised |-> TRUE, error |-> "KeyError"]

(***************************************************************************)
(* models/financial_models.py and data/tesla_data.py                       *)
(***************************************************************************)
ScenarioType == {"best", "base", "worst"}

ForecastYears == <<2025, 2026, 2027, 2028, 2029>>

TESLA_BASE_YEAR_DATA ==
  [ automotive_revenue   |-> 824190,
    services_revenue     |-> 143540,
    total_revenue        |-> 967730,
    cash_and_equivalents |-> 287000,
    total_debt           |-> 95700,
    shares_outstanding   |-> 317800 ]

MACRO_ASSUMPTIONS ==
  [ risk_free_rate |-> 430, market_risk_premium |-> 600, tesla_beta_x100 |-> 230 ]

base_delivery_growth(year) ==
  CASE year = 2025 -> 2000
    [] year = 2026 -> 1800
    [] year = 2027 -> 1500
    [] year = 2028 -> 1200
    [] year = 2029 -> 1000

\* scenario_multipliers with the entries of BEST and WORST exchanged
scenario_multipliers_exchanged(scenario) ==
  CASE scenario = "best"  -> [delivery_growth_multiplier_x10 |-> 7,  margin_improvement |-> 0 - 200]
    [] scenario = "base"  -> [delivery_growth_multiplier_x10 |-> 10, margin_improvement |-> 0]
    [] scenario = "worst" -> [delivery_growth_multiplier_x10 |-> 13, margin_improvement |-> 200]

\* delivery_growth_multiplier in tenths, margin_improvement in basis points
scenario_multipliers(scenario) ==
  CASE scenario = "best"  -> [delivery_growth_multiplier_x10 |-> 13, margin_improvement |-> 200]
    [] scenario = "base"  -> [delivery_growth_multiplier_x10 |-> 10, margin_improvement |-> 0]
    [] scenario = "worst" -> [delivery_growth_multiplier_x10 |-> 7,  margin_improvement |-> 0 - 200]

\* table_key falling back to the base scenario for a key that is not in the dict
table_key_defaulting(scenario) ==
  IF scenario \in ScenarioType THEN Some(scenario) ELSE Some("base")

\* the key under which a dict keyed by ScenarioType holds the entry for scenario:
\* dict[scenario] (tesla_data.py line 67, tesla_enhanced_data.py lines 143-144
\* and the dict literals of lines 165-210) finds the member equal to scenario,
\* and raises KeyError (None here) when there is none
table_key(scenario) ==
  IF scenario \in ScenarioType THEN Some(scenario) ELSE None

\* the keys of base_delivery_growth, lines 38-42
base_delivery_growth_years == 2025..2029

get_tesla_assumptions(scenario, year) ==
  IF IsNone(table_key(scenario)) \/ year \notin base_delivery_growth_years
  THEN KeyError
  ELSE
  LET multiplier  == scenario_multipliers(The(table_key(scenario)))
      base_growth == base_delivery_growth(year)
  IN [ raised   |-> FALSE,
       scenario |-> scenario,
       year     |-> year,
       automotive_revenue_growth  |-> (base_growth * multiplier.delivery_growth_multiplier_x10) \div 10,
       services_revenue_growth    |-> 3500,
       gross_margin_automotive    |-> Min2(2500, 1900 + multiplier.margin_improvement),
       gross_margin_services      |-> 2200,
       rd_as_percent_revenue      |-> Max2(250, 350 - (year - 2025) * 20),
       sga_as_percent_revenue     |-> Max2(400, 550 - (year - 2025) * 30),
       days_sales_outstanding     |-> 15,
       days_inventory_outstanding |-> 25,
       days_payable_outstanding   |-> 45,
       capex_as_percent_revenue   |-> Max2(600, 900 - (year - 2025) * 50),
       depreciation_rate          |-> 1200,
       tax_rate                   |-> IF scenario = "best" THEN 2100 ELSE 2500,
       interest_rate_on_debt      |-> 500,
       risk_free_rate             |-> MACRO_ASSUMPTIONS.risk_free_rate,
       market_risk_premium        |-> MACRO_ASSUMPTIONS.market_risk_premium,
       beta_x100                  |-> MACRO_ASSUMPTIONS.tesla_beta_x100 ]

(***************************************************************************)
(* TeslaFinancialCalculator.calculate_income_statement                     *)
(***************************************************************************)
\* income_tax without the guard of line 65: the rate applied to losses too
income_tax_on_losses(pretax_income, tax_rate) == MulBP(pretax_income, tax_rate)

\* lines 65-71: tax only on positive pre-tax income
income_tax(pretax_income, tax_rate) ==
  IF pretax_income > 0 THEN MulBP(pretax_income, tax_rate) ELSE 0

\* line 46, line 55: unguarded ratio, in basis points
ratio(numerator, denominator) == RateOf(numerator, denominator)

\* line 75: guarded ratio, in basis points
net_margin_of(net_income, total_revenue) ==
  IF total_revenue > 0 THEN RateOf(net_income, total_revenue) ELSE 0

\* the previous year's revenue carried forward with no growth
revenue_carried_forward(prev_revenue, growth_rate) == prev_revenue

\* lines 30 and 33: previous year * (1 + growth rate)
revenue_after_growth(prev_revenue, growth_rate) == MulBP(prev_revenue, 10000 + growth_rate)

calculate_income_statement(assumptions, previous_year_data) ==
  LET base == TESLA_BASE_YEAR_DATA
      prev_auto_revenue ==
        IF Truthy(previous_year_data)
        THEN DictGet(previous_year_data, "automotive_revenue", base.automotive_revenue)
        ELSE base.automotive_revenue
      prev_services_revenue ==
        IF Truthy(previous_year_data)
        THEN DictGet(previous_year_data, "services_revenue", base.services_revenue)
        ELSE base.services_revenue
      automotive_revenue ==
        revenue_after_growth(prev_auto_revenue, assumptions.automotive_revenue_growth)
      services_revenue ==
        revenue_after_growth(prev_services_revenue, assumptions.services_revenue_growth)
      total_revenue      == automotive_revenue + services_revenue
      automotive_cogs    == MulBP(automotive_revenue, 10000 - assumptions.gross_margin_automotive)
      services_cogs      == MulBP(services_revenue, 10000 - assumptions.gross_margin_services)
      total_cogs         == automotive_cogs + services_cogs
      automotive_gross_profit == automotive_revenue - automotive_cogs
      services_gross_profit   == services_revenue - services_cogs
      total_gross_profit      == automotive_gross_profit + services_gross_profit
      research_development    == MulBP(total_revenue, assumptions.rd_as_percent_revenue)
      selling_general_admin   == MulBP(total_revenue, assumptions.sga_as_percent_revenue)
      total_operating_expenses == research_development + selling_general_admin
      operating_income  == total_gross_profit - total_operating_expenses
      interest_income   == MulBP(280000, 200)
      interest_expense  == MulBP(95700, assumptions.interest_rate_on_debt)
      other_income      == 1000
      pretax_income     == operating_income + interest_income - interest_expense + other_income
      income_tax_expense == income_tax(pretax_income, assumptions.tax_rate)
      net_income        == pretax_income - income_tax_expense
      shares_outstanding == 317800
  IN IF total_revenue = 0
     THEN ZeroDivisionError
     ELSE [ raised |-> FALSE,
            scenario |-> assumptions.scenario,
            year |-> assumptions.year,
            automotive_revenue |-> automotive_revenue,
            services_revenue |-> services_revenue,
            total_revenue |-> total_revenue,
            automotive_cogs |-> automotive_cogs,
            services_cogs |-> services_cogs,
            total_cogs |-> total_cogs,
            total_gross_profit |-> total_gross_profit,
            gross_margin |-> ratio(total_gross_profit, total_revenue),
            total_operating_expenses |-> total_operating_expenses,
            operating_income |-> operating_income,
            operating_margin |-> ratio(operating_income, total_revenue),
            interest_income |-> interest_income,
            interest_expense |-> interest_expense,
            other_income |-> other_income,
            pretax_income |-> pretax_income,
            income_tax_expense |-> income_tax_expense,
            effective_tax_rate |-> IF pretax_income > 0 THEN assumptions.tax_rate ELSE 0,
            net_income |-> net_income,
            net_margin |-> net_margin_of(net_income, total_revenue),
            shares_outstanding |-> shares_outstanding,
            earnings_per_share |-> MulDiv(net_income, 1000, shares_outstanding) ]

(***************************************************************************)
(* TeslaFinancialCalculator.calculate_balance_sheet                        *)
(* previous_balance_sheet and cash_flow_stmt are Optional.                 *)
(***************************************************************************)
\* lines 144-145
current_assets_total(cash, bs) ==
  cash + bs.accounts_receivable + bs.inventory + bs.prepaid_expenses + bs.other_current_assets

\* retained earnings carried over with the year's net income left out
retained_earnings_carried(prev_retained_earnings, net_income) == prev_retained_earnings

\* line 184
retained_earnings_of(prev_retained_earnings, net_income) == prev_retained_earnings + net_income

calculate_balance_sheet(assumptions, income_stmt, previous_balance_sheet, cash_flow_stmt) ==
  LET prev_cash == IF ~IsNone(previous_balance_sheet)
                   THEN The(previous_balance_sheet).cash_and_equivalents
                   ELSE TESLA_BASE_YEAR_DATA.cash_and_equivalents
      prev_ppe  == IF ~IsNone(previous_balance_sheet)
                   THEN The(previous_balance_sheet).net_ppe
                   ELSE 500000
      prev_debt == IF ~IsNone(previous_balance_sheet)
                   THEN The(previous_balance_sheet).long_term_debt
                   ELSE TESLA_BASE_YEAR_DATA.total_debt
      prev_retained_earnings ==
                   IF ~IsNone(previous_balance_sheet)
                   THEN The(previous_balance_sheet).retained_earnings
                   ELSE 200000
      cash_and_equivalents == IF ~IsNone(cash_flow_stmt)
                              THEN The(cash_flow_stmt).ending_cash
                              ELSE prev_cash
      wc == [ accounts_receivable  |-> DaysOf(assumptions.days_sales_outstanding, income_stmt.total_revenue),
              inventory            |-> DaysOf(assumptions.days_inventory_outstanding, income_stmt.total_cogs),
              prepaid_expenses     |-> MulBP(income_stmt.total_revenue, 100),
              other_current_assets |-> MulBP(income_stmt.total_revenue, 200) ]
      total_current_assets == current_assets_total(cash_and_equivalents, wc)
      annual_capex        == MulBP(income_stmt.total_revenue, assumptions.capex_as_percent_revenue)
      annual_depreciation == MulBP(prev_ppe, assumptions.depreciation_rate)
      net_ppe             == prev_ppe + annual_capex - annual_depreciation
      accumulated_depreciation == annual_depreciation
      intangible_assets   == 20000
      other_non_current_assets == 50000
      total_non_current_assets == net_ppe + intangible_assets + other_non_current_assets
      total_assets        == total_current_assets + total_non_current_assets
      accounts_payable    == DaysOf(assumptions.days_payable_outstanding, income_stmt.total_cogs)
      accrued_liabilities == MulBP(income_stmt.total_revenue, 300)
      current_portion_debt == MulBP(prev_debt, 1000)
      other_current_liabilities == MulBP(income_stmt.total_revenue, 200)
      total_current_liabilities == accounts_payable + accrued_liabilities
                                   + current_portion_debt + other_current_liabilities
      long_term_debt      == prev_debt - current_portion_debt
      other_non_current_liabilities == 30000
      total_non_current_liabilities == long_term_debt + other_non_current_liabilities
      total_liabilities   == total_current_liabilities + total_non_current_liabilities
      common_stock        == 10000
      retained_earnings   == retained_earnings_of(prev_retained_earnings, income_stmt.net_income)
      other_equity        == 5000
      total_shareholders_equity == common_stock + retained_earnings + other_equity
      total_liab_and_equity == total_liabilities + total_shareholders_equity
  IN [ scenario |-> assumptions.scenario,
       year |-> assumptions.year,
       cash_and_equivalents |-> cash_and_equivalents,
       accounts_receivable |-> wc.accounts_receivable,
       inventory |-> wc.inventory,
       prepaid_expenses |-> wc.prepaid_expenses,
       other_current_assets |-> wc.other_current_assets,
       total_current_assets |-> total_current_assets,
       property_plant_equipment |-> net_ppe + accumulated_depreciation,
       accumulated_depreciation |-> accumulated_depreciation,
       net_ppe |-> net_ppe,
       intangible_assets |-> intangible_assets,
       other_non_current_assets |-> other_non_current_assets,
       total_non_current_assets |-> total_non_current_assets,
       total_assets |-> total_assets,
       accounts_payable |-> accounts_payable,
       accrued_liabilities |-> accrued_liabilities,
       current_portion_debt |-> current_portion_debt,
       other_current_liabilities |-> other_current_liabilities,
       total_current_liabilities |-> total_current_liabilities,
       long_term_debt |-> long_term_debt,
       other_non_current_liabilities |-> other_non_current_liabilities,
       total_non_current_liabilities |-> total_non_current_liabilities,
       total_liabilities |-> total_liabilities,
       common_stock |-> common_stock,
       retained_earnings |-> retained_earnings,
       other_equity |-> other_equity,
       total_shareholders_equity |-> total_shareholders_equity,
       total_liab_and_equity |-> total_liab_and_equity ]

(***************************************************************************)
(* TeslaFinancialCalculator.calculate_cash_flow_statement                  *)
(***************************************************************************)
\* lines 229-233
beginning_cash_of(previous_balance_sheet) ==
  IF ~IsNone(previous_balance_sheet)
  THEN The(previous_balance_sheet).cash_and_equivalents
  ELSE TESLA_BASE_YEAR_DATA.cash_and_equivalents

\* lines 244-256: the three working-capital changes
working_capital_changes(current_balance_sheet, previous_balance_sheet) ==
  IF ~IsNone(previous_balance_sheet)
  THEN [ change_accounts_receivable |->
           current_balance_sheet.accounts_receivable - The(previous_balance_sheet).accounts_receivable,
         change_inventory |->
           current_balance_sheet.inventory - The(previous_balance_sheet).inventory,
         change_accounts_payable |->
           current_balance_sheet.accounts_payable - The(previous_balance_sheet).accounts_payable ]
  ELSE [ change_accounts_receivable |-> 0 - current_balance_sheet.accounts_receivable,
         change_inventory           |-> 0 - current_balance_sheet.inventory,
         change_accounts_payable    |-> current_balance_sheet.accounts_payable ]

\* the capital expenditure reported as a positive amount
capital_expenditures_unsigned(annual_capex) == annual_capex

\* line 267
capital_expenditures_of(annual_capex) == 0 - annual_capex

\* lines 272-273
investing_cash_flow_of(capital_expenditures, acquisitions, investments, other_investing_activities) ==
  capital_expenditures + acquisitions + investments + other_investing_activities

\* lines 283-284
financing_cash_flow_of(debt_proceeds, debt_repayments, equity_proceeds, share_repurchases, dividends_paid, other_financing_activities) ==
  debt_proceeds - debt_repayments + equity_proceeds
    - share_repurchases - dividends_paid + other_financing_activities

\* net_change_cash_of with the investing cash flow left out of line 287
net_change_cash_without_investing(operating_cash_flow, investing_cash_flow, financing_cash_flow) ==
  operating_cash_flow + financing_cash_flow

\* line 287
net_change_cash_of(operating_cash_flow, investing_cash_flow, financing_cash_flow) ==
  operating_cash_flow + investing_cash_flow + financing_cash_flow

\* the year's change added to the base-year cash instead of the beginning cash
ending_cash_from_base(beginning_cash, net_change_cash) ==
  TESLA_BASE_YEAR_DATA.cash_and_equivalents + net_change_cash

\* line 288
ending_cash_of(beginning_cash, net_change_cash) == beginning_cash + net_change_cash

\* free_cash_flow_of with the (negative) capex subtracted in line 291
free_cash_flow_subtracting_capex(operating_cash_flow, capital_expenditures) ==
  operating_cash_flow - capital_expenditures

\* line 291
free_cash_flow_of(operating_cash_flow, capital_expenditures) ==
  operating_cash_flow + capital_expenditures

calculate_cash_flow_statement(assumptions, income_stmt, current_balance_sheet, previous_balance_sheet) ==
  LET beginning_cash == beginning_cash_of(previous_balance_sheet)
      net_income     == income_stmt.net_income
      annual_capex   == MulBP(income_stmt.total_revenue, assumptions.capex_as_percent_revenue)
      depreciation_amortization ==
        MulBP(IF ~IsNone(previous_balance_sheet) THEN The(previous_balance_sheet).net_ppe ELSE 500000,
              assumptions.depreciation_rate)
      stock_based_compensation == MulBP(income_stmt.total_revenue, 100)
      wc == working_capital_changes(current_balance_sheet, previous_balance_sheet)
      change_other_working_capital == 0
      other_operating_activities   == 0
      operating_cash_flow ==
        net_income + depreciation_amortization + stock_based_compensation
          - wc.change_accounts_receivable - wc.change_inventory
          + wc.change_accounts_payable + change_other_working_capital
          + other_operating_activities
      capital_expenditures == capital_expenditures_of(annual_capex)
      investing_cash_flow  == investing_cash_flow_of(capital_expenditures, 0, 0, 0)
      financing_cash_flow  == financing_cash_flow_of(0, 0, 0, 0, 0, 0)
      net_change_cash == net_change_cash_of(operating_cash_flow, investing_cash_flow, financing_cash_flow)
      ending_cash     == ending_cash_of(beginning_cash, net_change_cash)
      free_cash_flow  == free_cash_flow_of(operating_cash_flow, capital_expenditures)
  IN [ scenario |-> assumptions.scenario,
       year |-> assumptions.year,
       net_income |-> net_income,
       depreciation_amortization |-> depreciation_amortization,
       stock_based_compensation |-> stock_based_compensation,
       change_accounts_receivable |-> wc.change_accounts_receivable,
       change_inventory |-> wc.change_inventory,
       change_accounts_payable |-> wc.change_accounts_payable,
       change_other_working_capital |-> change_other_working_capital,
       other_operating_activities |-> other_operating_activities,
       operating_cash_flow |-> operating_cash_flow,
       capital_expenditures |-> capital_expenditures,
       acquisitions |-> 0,
       investments |-> 0,
       other_investing_activities |-> 0,
       investing_cash_flow |-> investing_cash_flow,
       debt_proceeds |-> 0,
       debt_repayments |-> 0,
       equity_proceeds |-> 0,
       share_repurchases |-> 0,
       dividends_paid |-> 0,
       other_financing_activities |-> 0,
       financing_cash_flow |-> financing_cash_flow,
       net_change_cash |-> net_change_cash,
       beginning_cash |-> beginning_cash,
       ending_cash |-> ending_cash,
       free_cash_flow |-> free_cash_flow ]

(***************************************************************************)
(* build_complete_financial_model, lines 471-483: the in-place update of   *)
(* the year's balance sheet once the cash-flow statement is known.         *)
(***************************************************************************)
\* reconcile_cash with lines 472-483 left out
reconcile_cash_skipped(balance_sheet, cash_flow) == balance_sheet

\* reconcile_cash with line 472 alone: the cash updated, the totals left stale
reconcile_cash_stale_totals(balance_sheet, cash_flow) ==
  [balance_sheet EXCEPT !.cash_and_equivalents = cash_flow.ending_cash]

\* reconcile_cash that also plugs shareholders' equity to make the sheet balance
reconcile_cash_plugging_equity(balance_sheet, cash_flow) ==
  LET total_current_assets == current_assets_total(cash_flow.ending_cash, balance_sheet)
      total_assets == total_current_assets + balance_sheet.total_non_current_assets
  IN [ balance_sheet EXCEPT
         !.cash_and_equivalents  = cash_flow.ending_cash,
         !.total_current_assets  = total_current_assets,
         !.total_assets          = total_assets,
         !.total_shareholders_equity = total_assets - balance_sheet.total_liabilities,
         !.total_liab_and_equity = total_assets ]

reconcile_cash(balance_sheet, cash_flow) ==
  LET total_current_assets == current_assets_total(cash_flow.ending_cash, balance_sheet)
      total_assets == total_current_assets + balance_sheet.total_non_current_assets
  IN [ balance_sheet EXCEPT
         !.cash_and_equivalents  = cash_flow.ending_cash,
         !.total_current_assets  = total_current_assets,
         !.total_assets          = total_assets,
         !.total_liab_and_equity = balance_sheet.total_liabilities
                                   + balance_sheet.total_shareholders_equity ]

(***************************************************************************)
(* TeslaFinancialCalculator.calculate_wacc                                 *)
(***************************************************************************)
\* lines 339-344.  With weight_equity = 1 - weight_debt the weighted average
\* weight_equity * cost_of_equity + weight_debt * cost_of_debt is
\* cost_of_equity + weight_debt * (cost_of_debt - cost_of_equity); in this form
\* the weights need no rounding of their own.  Without capital the weights are
\* 0 and 1.
weighted_cost(total_debt, market_value_equity, cost_of_equity, cost_of_debt) ==
  LET total_capital == total_debt + market_value_equity
  IN IF total_capital > 0
       THEN cost_of_equity
              + (total_debt * (cost_of_debt - cost_of_equity)) \div total_capital
       ELSE cost_of_equity

calculate_wacc(assumptions, current_balance_sheet) ==
  LET cost_of_equity == assumptions.risk_free_rate
                        + MulDiv(assumptions.market_risk_premium, assumptions.beta_x100, 100)
      cost_of_debt   == MulBP(assumptions.interest_rate_on_debt, 10000 - assumptions.tax_rate)
      total_debt     == current_balance_sheet.long_term_debt
                        + current_balance_sheet.current_portion_debt
      market_value_equity == current_balance_sheet.total_shareholders_equity
  IN [ cost_of_equity |-> cost_of_equity,
       cost_of_debt   |-> cost_of_debt,
       wacc |-> weighted_cost(total_debt, market_value_equity, cost_of_equity, cost_of_debt) ]

(***************************************************************************)
(* The discounting arithmetic shared by calculate_dcf_valuation and        *)
(* calculate_enhanced_dcf_valuation.  Rates are basis points.              *)
(***************************************************************************)
terminal_growth_rate == 250

sensitivity_growth_rates == <<150, 200, 250, 300, 350>>

\* financial_calculator.py line 389, enhanced line 339
sensitivity_wacc_rates(wacc) == <<wacc - 100, wacc - 50, wacc, wacc + 50, wacc + 100>>

\* x / (1 + rate) ** n: n divisions by (1 + rate); 1 + rate # 0
RECURSIVE discount(_, _, _)
discount(x, rate, n) ==
  IF n = 0 THEN x ELSE discount(Quot(x, 10000, 10000 + rate), rate, n - 1)

\* lines 370-373: sum of fcf[i] / (1 + rate) ** (i + 1)
RECURSIVE present_value_of(_, _, _)
present_value_of(fcfs, rate, i) ==
  IF i > Len(fcfs) THEN 0
  ELSE discount(fcfs[i], rate, i) + present_value_of(fcfs, rate, i + 1)

\* the final-year FCF capitalised without being grown first
terminal_value_of_final_fcf(final_year_fcf, rate, growth) ==
  Quot(final_year_fcf, 10000, rate - growth)

\* lines 363-364: final-year FCF grown once and capitalised; rate # growth
terminal_value_of(final_year_fcf, rate, growth) ==
  Quot(MulBP(final_year_fcf, 10000 + growth), 10000, rate - growth)

\* price per share in cents
price_of(equity_value, shares_outstanding) == MulDiv(equity_value, 1000, shares_outstanding)

\* sensitivity_cell with the terminal value of lines 398-399 taken at the headline
\* growth instead of the row's
sensitivity_cell_at_headline_growth(growth, discount_rate, fcfs, horizon, net_cash, shares_outstanding) ==
  IF discount_rate <= growth
  THEN 0
  ELSE price_of(present_value_of(fcfs, discount_rate, 1)
                  + discount(Quot(MulBP(fcfs[Len(fcfs)], 10250), 10000, discount_rate - 250),
                             discount_rate, horizon)
                  + net_cash,
                shares_outstanding)

\* sensitivity_cell with the equity value of line 406 left at the enterprise
\* value, net cash not added
sensitivity_cell_without_net_cash(growth, discount_rate, fcfs, horizon, net_cash, shares_outstanding) ==
  IF discount_rate <= growth
  THEN 0
  ELSE price_of(present_value_of(fcfs, discount_rate, 1)
                  + discount(terminal_value_of(fcfs[Len(fcfs)], discount_rate, growth),
                             discount_rate, horizon),
                shares_outstanding)

\* lines 395-409: one cell of the sensitivity matrix; horizon is the exponent
\* applied to the terminal value
sensitivity_cell(growth, discount_rate, fcfs, horizon, net_cash, shares_outstanding) ==
  IF discount_rate <= growth
  THEN 0
  ELSE LET sens_terminal_value == terminal_value_of(fcfs[Len(fcfs)], discount_rate, growth)
           sens_pv_terminal    == discount(sens_terminal_value, discount_rate, horizon)
           sens_pv_cf          == present_value_of(fcfs, discount_rate, 1)
           sens_equity_value   == sens_pv_cf + sens_pv_terminal + net_cash
       IN price_of(sens_equity_value, shares_outstanding)

\* lines 391-410
sensitivity_matrix_of(wacc, fcfs, horizon, net_cash, shares_outstanding) ==
  [ g \in 1..Len(sensitivity_growth_rates) |->
      [ w \in 1..Len(sensitivity_wacc_rates(wacc)) |->
          sensitivity_cell(sensitivity_growth_rates[g], sensitivity_wacc_rates(wacc)[w],
                           fcfs, horizon, net_cash, shares_outstanding) ] ]

\* lines 360-430 of financial_calculator.py, lines 316-380 of the enhanced
\* calculator: the headline valuation, then the matrix
valuation(scenario, costs, fcfs, horizon, net_cash, shares_outstanding) ==
  LET wacc == costs.wacc
      terminal_value == terminal_value_of(fcfs[Len(fcfs)], wacc, terminal_growth_rate)
      present_value_terminal   == discount(terminal_value, wacc, horizon)
      present_value_cash_flows == present_value_of(fcfs, wacc, 1)
      enterprise_value == present_value_cash_flows + present_value_terminal
      equity_value     == enterprise_value + net_cash
  IN IF Len(fcfs) = 0 THEN IndexError
     ELSE IF wacc - terminal_growth_rate = 0 THEN ZeroDivisionError
     ELSE IF 10000 + wacc = 0 THEN ZeroDivisionError
     ELSE [ raised |-> FALSE,
            scenario |-> scenario,
            cost_of_equity |-> costs.cost_of_equity,
            cost_of_debt |-> costs.cost_of_debt,
            wacc |-> wacc,
            projected_free_cash_flows |-> fcfs,
            terminal_growth_rate |-> terminal_growth_rate,
            terminal_value |-> terminal_value,
            present_value_terminal |-> present_value_terminal,
            present_value_cash_flows |-> present_value_cash_flows,
            enterprise_value |-> enterprise_value,
            net_cash |-> net_cash,
            equity_value |-> equity_value,
            shares_outstanding |-> shares_outstanding,
            price_per_share |-> price_of(equity_value, shares_outstanding),
            sensitivity_growth_rates |-> sensitivity_growth_rates,
            sensitivity_wacc_rates |-> sensitivity_wacc_rates(wacc),
            sensitivity_matrix |->
              sensitivity_matrix_of(wacc, fcfs, horizon, net_cash, shares_outstanding) ]

\* [cf.free_cash_flow for cf in cash_flow_statements]
free_cash_flows_of(cash_flow_statements) ==
  [ i \in 1..Len(cash_flow_statements) |-> cash_flow_statements[i].free_cash_flow ]

(***************************************************************************)
(* TeslaFinancialCalculator.calculate_dcf_valuation                        *)
(***************************************************************************)
calculate_dcf_valuation(scenario, cash_flow_statements, final_year_assumptions, final_balance_sheet) ==
  LET projected_free_cash_flows == free_cash_flows_of(cash_flow_statements)
      costs    == calculate_wacc(final_year_assumptions, final_balance_sheet)
      net_cash == final_balance_sheet.cash_and_equivalents
                  - (final_balance_sheet.long_term_debt + final_balance_sheet.current_portion_debt)
  IN valuation(scenario, costs, projected_free_cash_flows, 5, net_cash, 317800)

(***************************************************************************)
(* data/tesla_enhanced_data.py get_enhanced_tesla_drivers, lines 205-221:  *)
(* the financial drivers of the returned dict.                             *)
(***************************************************************************)
\* TESLA_HISTORICAL_DATA["historical_deliveries"][2023], lines 37-38 of
\* tesla_enhanced_data.py, in half vehicles (model_s is 27389.5, model_x 41484.5)
base_deliveries_2023 ==
  [ model_s |-> 54779, model_x |-> 82969, model_3 |-> 1253876,
    model_y |-> 2225538, cybertruck |-> 2326, semi |-> 0 ]

\* lines 109-134: growth by model for the years 2024..2029, in percent
delivery_growth_assumptions(scenario) ==
  CASE scenario = "best" ->
         [ model_s |-> <<15, 12, 10, 8, 6, 5>>,
           model_x |-> <<18, 15, 12, 10, 8, 6>>,
           model_3 |-> <<8, 6, 5, 4, 3, 2>>,
           model_y |-> <<25, 20, 15, 12, 10, 8>>,
           cybertruck |-> <<800, 250, 180, 140, 120, 100>>,
           semi |-> <<5000, 500, 300, 200, 150, 120>> ]
    [] scenario = "base" ->
         [ model_s |-> <<10, 8, 6, 5, 4, 3>>,
           model_x |-> <<12, 10, 8, 6, 5, 4>>,
           model_3 |-> <<5, 4, 3, 2, 2, 1>>,
           model_y |-> <<18, 15, 12, 10, 8, 6>>,
           cybertruck |-> <<500, 200, 150, 120, 100, 80>>,
           semi |-> <<2000, 300, 200, 150, 120, 100>> ]
    [] scenario = "worst" ->
         [ model_s |-> <<5, 3, 2, 1, 1, 0>>,
           model_x |-> <<6, 4, 3, 2, 1, 1>>,
           model_3 |-> <<2, 1, 0, 0 - 1, 0 - 1, 0 - 2>>,
           model_y |-> <<10, 8, 6, 4, 3, 2>>,
           cybertruck |-> <<300, 120, 80, 60, 50, 40>>,
           semi |-> <<1000, 150, 100, 80, 60, 50>> ]

\* the years a model's growth table has a rate for: "year in growth_rates[model]"
growth_rate_years == 2024..2029

\* lines 154-156: base_count * (1 + growth[2024]) * ... * (1 + growth[year])
\* (rounded down after every factor, so within a few vehicles of the float product)
RECURSIVE compound_deliveries(_, _, _, _)
compound_deliveries(count, rates, y, year) ==
  IF y > year THEN count
  ELSE compound_deliveries(MulDiv(count, 100 + rates[y - 2023], 100), rates, y + 1, year)

\* lines 150-160; int() leaves whole vehicles
projected_deliveries_of(scenario, year) ==
  [ model \in DOMAIN base_deliveries_2023 |->
      IF year \in growth_rate_years
      THEN Max2(0, 2 * (compound_deliveries(base_deliveries_2023[model],
                                           delivery_growth_assumptions(scenario)[model],
                                           2024, year) \div 2))
      ELSE base_deliveries_2023[model] ]

enhanced_financial_drivers(scenario, year) ==
  [ capex_rate     |-> CASE scenario = "best"  -> 800
                         [] scenario = "base"  -> 1000
                         [] scenario = "worst" -> 1200,
    rd_efficiency  |-> Max2(250, 400 - (year - 2024) * 20),
    sga_efficiency |-> Max2(350, 550 - (year - 2024) * 30),
    risk_free_rate |-> 390,
    beta_x100      |-> 229,
    market_risk_premium |-> 500,
    tax_rate       |-> 2500,
    cost_of_debt   |-> 530 ]

\* lines 103-222: the drivers of one scenario and year; asp_multiplier in
\* percent, growth rates in basis points
get_enhanced_tesla_drivers(scenario, year) ==
  IF IsNone(table_key(scenario))
  THEN KeyError
  ELSE LET key == The(table_key(scenario))
       IN [ raised   |-> FALSE,
            scenario |-> scenario,
            year     |-> year,
            projected_deliveries |-> projected_deliveries_of(key, year),
            asp_multiplier |-> CASE key = "best" -> 105 [] key = "base" -> 100
                                 [] key = "worst" -> 95,
            energy_growth_rate |-> CASE key = "best" -> 4500 [] key = "base" -> 3500
                                     [] key = "worst" -> 2500,
            services_growth_rate |-> CASE key = "best" -> 4000 [] key = "base" -> 3000
                                       [] key = "worst" -> 2000,
            automotive_margin_improvement |-> CASE key = "best" -> 200 [] key = "base" -> 100
                                                [] key = "worst" -> 0 - 100 ]
            @@ enhanced_financial_drivers(key, year)

\* lines 176, 191 and 150: ratio guarded by its denominator, in basis points
guarded_margin(numerator, total_revenue) ==
  IF total_revenue > 0 THEN RateOf(numerator, total_revenue) ELSE 0

(***************************************************************************)
(* EnhancedTeslaCalculator.calculate_driver_based_revenue and              *)
(* calculate_enhanced_margins.  Delivery counts arrive in half vehicles,   *)
(* ASPs are whole dollars, revenue and COGS are in units of $4,000,        *)
(* margins in basis points.                                                *)
(***************************************************************************)
\* tesla_enhanced_data.py lines 50-98: base_asp and margin_premium by model
VEHICLE_MODEL_DATA ==
  [ model_s    |-> [base_asp |-> 95000,  margin_premium |-> 2500],
    model_x    |-> [base_asp |-> 105000, margin_premium |-> 2200],
    model_3    |-> [base_asp |-> 42000,  margin_premium |-> 1800],
    model_y    |-> [base_asp |-> 52000,  margin_premium |-> 2000],
    cybertruck |-> [base_asp |-> 75000,  margin_premium |-> 2800],
    semi       |-> [base_asp |-> 200000, margin_premium |-> 1500] ]

\* tesla_enhanced_data.py lines 16-21: energy and services revenue of the
\* historical years, in units of $4,000
historical_revenue ==
  [ y \in 2020..2023 |->
      CASE y = 2020 -> [energy |-> 498500,  services |-> 576500]
        [] y = 2021 -> [energy |-> 697250,  services |-> 950500]
        [] y = 2022 -> [energy |-> 977250,  services |-> 1522750]
        [] y = 2023 -> [energy |-> 1508750, services |-> 2079750] ]

\* lines 42-48: base_asp * asp_multiplier * 0.98 ** years_from_2024
RECURSIVE final_asp_of(_, _, _)
final_asp_of(base_asp, asp_multiplier, years_from_2024) ==
  IF years_from_2024 = 0 THEN MulDiv(base_asp, asp_multiplier, 100)
  ELSE MulDiv(final_asp_of(base_asp, asp_multiplier, years_from_2024 - 1), 98, 100)

\* lines 64-82: the historical figure up to 2023, afterwards the 2023 figure
\* compounded at growth_rate for year - 2023 years
RECURSIVE segment_revenue(_, _, _)
segment_revenue(segment, growth_rate, year) ==
  IF year <= 2023 THEN historical_revenue[year][segment]
  ELSE MulBP(segment_revenue(segment, growth_rate, year - 1), 10000 + growth_rate)

RECURSIVE sum_over_models(_, _, _)
sum_over_models(keys, by_model, field) ==
  IF keys = {} THEN 0
  ELSE LET k == CHOOSE x \in keys : TRUE
       IN by_model[k][field] + sum_over_models(keys \ {k}, by_model, field)

\* lines 22-90: "deliveries" is int(delivery_count) in whole vehicles, "revenue"
\* is delivery_count * final_asp
calculate_driver_based_revenue(drivers, year) ==
  LET keys == DOMAIN drivers.projected_deliveries \cap DOMAIN VEHICLE_MODEL_DATA
      by_model ==
        [ model_key \in keys |->
            LET delivery_count == drivers.projected_deliveries[model_key]
                final_asp == final_asp_of(VEHICLE_MODEL_DATA[model_key].base_asp,
                                          drivers.asp_multiplier, Max2(0, year - 2024))
            IN [ deliveries |-> delivery_count \div 2,
                 asp        |-> final_asp,
                 revenue    |-> MulDiv(delivery_count, final_asp, 8000) ] ]
      total_automotive_revenue == sum_over_models(keys, by_model, "revenue")
      energy_revenue   == segment_revenue("energy", drivers.energy_growth_rate, year)
      services_revenue == segment_revenue("services", drivers.services_growth_rate, year)
  IN [ automotive_revenue_by_model |-> by_model,
       total_automotive_revenue |-> total_automotive_revenue,
       energy_revenue   |-> energy_revenue,
       services_revenue |-> services_revenue,
       total_revenue    |-> total_automotive_revenue + energy_revenue + services_revenue ]

\* the scale benefit left without its ceiling
scale_benefit_uncapped(delivery_count) == delivery_count \div 2500

\* line 114: min(0.05, delivery_count / 500000 * 0.02)
scale_benefit_of(delivery_count) == Min2(500, delivery_count \div 2500)

\* lines 92-152; a COGS is revenue less the margin's share of it
calculate_enhanced_margins(revenue_breakdown, drivers, year) ==
  LET by_model == revenue_breakdown.automotive_revenue_by_model
      keys == DOMAIN by_model \cap DOMAIN VEHICLE_MODEL_DATA
      rows ==
        [ model_key \in keys |->
            LET adjusted_margin == VEHICLE_MODEL_DATA[model_key].margin_premium
                                   + drivers.automotive_margin_improvement
                final_margin == Min2(3500, adjusted_margin
                                            + scale_benefit_of(by_model[model_key].deliveries))
            IN [ margin |-> final_margin,
                 cogs   |-> by_model[model_key].revenue
                            - MulBP(by_model[model_key].revenue, final_margin) ] ]
      automotive_cogs == sum_over_models(keys, rows, "cogs")
      energy_cogs   == revenue_breakdown.energy_revenue
                       - MulBP(revenue_breakdown.energy_revenue, 2200)
      services_cogs == revenue_breakdown.services_revenue
                       - MulBP(revenue_breakdown.services_revenue, 4500)
      automotive_gross_profit == revenue_breakdown.total_automotive_revenue - automotive_cogs
      total_gross_profit == automotive_gross_profit
                            + revenue_breakdown.energy_revenue - energy_cogs
                            + revenue_breakdown.services_revenue - services_cogs
  IN [ model_margins   |-> [model_key \in keys |-> rows[model_key].margin],
       automotive_cogs |-> automotive_cogs,
       automotive_gross_profit |-> automotive_gross_profit,
       automotive_margin |-> guarded_margin(automotive_gross_profit,
                                            revenue_breakdown.total_automotive_revenue),
       energy_cogs |-> energy_cogs,
       energy_gross_profit |-> revenue_breakdown.energy_revenue - energy_cogs,
       energy_margin |-> 2200,
       services_cogs |-> services_cogs,
       services_gross_profit |-> revenue_breakdown.services_revenue - services_cogs,
       services_margin |-> 4500,
       total_cogs |-> automotive_cogs + energy_cogs + services_cogs,
       total_gross_profit |-> total_gross_profit,
       total_margin |-> guarded_margin(total_gross_profit, revenue_breakdown.total_revenue) ]

(***************************************************************************)
(* EnhancedTeslaCalculator.calculate_enhanced_income_statement, lines      *)
(* 167-244: the statement built from the year's drivers, revenue breakdown *)
(* and margins.                                                            *)
(***************************************************************************)
\* line 187
enhanced_tax_expense(pretax_income, tax_rate) ==
  IF pretax_income > 0 THEN Max2(0, MulBP(pretax_income, tax_rate)) ELSE 0

\* lines 194-196
enhanced_shares_outstanding(year) == MulBP(317800, 10000 + (year - 2023) * 200)

enhanced_income_statement(scenario, year, drivers, revenue_breakdown, margins) ==
  LET total_revenue    == revenue_breakdown.total_revenue
      rd_expense       == MulBP(total_revenue, drivers.rd_efficiency)
      sga_expense      == MulBP(total_revenue, drivers.sga_efficiency)
      total_opex       == rd_expense + sga_expense
      operating_income == margins.total_gross_profit - total_opex
      interest_income  == MulBP(280000, 300)
      interest_expense == MulBP(52300, drivers.cost_of_debt)
      other_income     == MulBP(total_revenue, 50)
      pretax_income    == operating_income + interest_income - interest_expense + other_income
      tax_expense      == enhanced_tax_expense(pretax_income, drivers.tax_rate)
      net_income       == pretax_income - tax_expense
      shares_outstanding == enhanced_shares_outstanding(year)
  IN IF shares_outstanding = 0
     THEN ZeroDivisionError
     ELSE [ raised |-> FALSE,
            scenario |-> scenario,
            year |-> year,
            drivers |-> drivers,
            automotive_revenue |-> revenue_breakdown.total_automotive_revenue,
            total_revenue |-> total_revenue,
            total_gross_profit |-> margins.total_gross_profit,
            gross_margin |-> margins.total_margin,
            total_operating_expenses |-> total_opex,
            operating_income |-> operating_income,
            operating_margin |-> guarded_margin(operating_income, total_revenue),
            interest_income |-> interest_income,
            interest_expense |-> interest_expense,
            other_income |-> other_income,
            pretax_income |-> pretax_income,
            income_tax_expense |-> tax_expense,
            effective_tax_rate |-> drivers.tax_rate,
            net_income |-> net_income,
            net_margin |-> guarded_margin(net_income, total_revenue),
            shares_outstanding |-> shares_outstanding,
            earnings_per_share |-> Quot(net_income, 1000, shares_outstanding) ]

\* calculate_enhanced_margins, lines 144-150: the totals over the segments
enhanced_margin_totals(total_revenue, total_gross_profit) ==
  [ total_gross_profit |-> total_gross_profit,
    total_margin |-> guarded_margin(total_gross_profit, total_revenue) ]

(***************************************************************************)
(* EnhancedTeslaCalculator.calculate_enhanced_dcf_valuation                *)
(***************************************************************************)
\* lines 300-314
enhanced_free_cash_flow(income_stmt, drivers) ==
  LET after_tax_operating_income == MulBP(income_stmt.operating_income, 10000 - drivers.tax_rate)
      depreciation == MulBP(income_stmt.automotive_revenue, 1200)
      capex        == MulBP(income_stmt.automotive_revenue, drivers.capex_rate)
      wc_change    == MulBP(income_stmt.total_revenue, 100)
  IN after_tax_operating_income + depreciation - capex - wc_change

EmptyResult == [raised |-> FALSE, empty |-> TRUE]

\* lines 279-295
enhanced_wacc(drivers) ==
  LET cost_of_equity == drivers.risk_free_rate
                        + MulDiv(drivers.market_risk_premium, drivers.beta_x100, 100)
      cost_of_debt   == MulBP(drivers.cost_of_debt, 10000 - drivers.tax_rate)
  IN [ cost_of_equity |-> cost_of_equity,
       cost_of_debt   |-> cost_of_debt,
       wacc |-> weighted_cost(52300, 8000000, cost_of_equity, cost_of_debt) ]

calculate_enhanced_dcf_valuation(scenario, income_stmts) ==
  IF Len(income_stmts) = 0
  THEN EmptyResult
  ELSE LET drivers == income_stmts[1].drivers
           costs == enhanced_wacc(drivers)
           free_cash_flows ==
             [ i \in 1..Len(income_stmts) |-> enhanced_free_cash_flow(income_stmts[i], drivers) ]
       IN valuation(scenario, costs, free_cash_flows, Len(free_cash_flows), 280000,
                    income_stmts[Len(income_stmts)].shares_outstanding)

(***************************************************************************)
(* TeslaFinancialCalculator.build_complete_financial_model as one call,    *)
(* lines 432-502, and the drivers build_enhanced_financial_model reads.    *)
(***************************************************************************)
\* lines 444-448
EmptyChain ==
  [ raised |-> FALSE,
    income_statements |-> <<>>,
    balance_sheets |-> <<>>,
    cash_flow_statements |-> <<>>,
    previous_income |-> None,
    previous_balance |-> None ]

\* lines 449-489: one iteration of the year loop
build_year(chain, assumptions) ==
  LET prev_data ==
        IF ~IsNone(chain.previous_income)
        THEN [ automotive_revenue |-> The(chain.previous_income).automotive_revenue,
               services_revenue   |-> The(chain.previous_income).services_revenue ]
        ELSE EmptyDict
      income_stmt == calculate_income_statement(assumptions, prev_data)
      provisional == calculate_balance_sheet(assumptions, income_stmt,
                                             chain.previous_balance, None)
      cash_flow_stmt == calculate_cash_flow_statement(assumptions, income_stmt, provisional,
                                                      chain.previous_balance)
      balance_sheet == reconcile_cash(provisional, cash_flow_stmt)
  IN IF chain.raised THEN chain
     ELSE IF income_stmt.raised THEN [chain EXCEPT !.raised = TRUE]
     ELSE [ raised |-> FALSE,
            income_statements |-> Append(chain.income_statements, income_stmt),
            balance_sheets |-> Append(chain.balance_sheets, balance_sheet),
            cash_flow_statements |-> Append(chain.cash_flow_statements, cash_flow_stmt),
            previous_income |-> Some(income_stmt),
            previous_balance |-> Some(balance_sheet) ]

RECURSIVE build_years(_, _, _)
build_years(chain, assumptions_list, i) ==
  IF i > Len(assumptions_list) THEN chain
  ELSE CHOOSE years \in { build_years(next, assumptions_list, i + 1) :
                           next \in {build_year(chain, assumptions_list[i])} } : TRUE

\* lines 491-502: the returned model, or the exception of the valuation
finished_model(scenario, assumptions_list, chain, dcf_valuation) ==
  IF dcf_valuation.raised THEN dcf_valuation
  ELSE [ raised |-> FALSE,
         scenario |-> scenario,
         assumptions |-> assumptions_list,
         income_statements |-> chain.income_statements,
         balance_sheets |-> chain.balance_sheets,
         cash_flow_statements |-> chain.cash_flow_statements,
         dcf_valuation |-> dcf_valuation ]

\* lines 449-502 on the assumptions of lines 435-442: the year loop, then the
\* valuation of its last year; each local is computed once and then read
model_of(scenario, assumptions_list) ==
  IF \E i \in 1..Len(assumptions_list) : assumptions_list[i].raised THEN KeyError
  ELSE CHOOSE model \in
         { IF chain.raised THEN ZeroDivisionError
           ELSE CHOOSE m \in
                  { finished_model(scenario, assumptions_list, chain, dcf_valuation) :
                      dcf_valuation \in
                        { calculate_dcf_valuation(
                            scenario, chain.cash_flow_statements,
                            assumptions_list[Len(assumptions_list)],
                            chain.balance_sheets[Len(chain.balance_sheets)]) } } : TRUE :
             chain \in {build_years(EmptyChain, assumptions_list, 1)} } : TRUE

build_complete_financial_model(scenario) ==
  CHOOSE model \in
    { model_of(scenario, assumptions_list) :
        assumptions_list \in
          { [ i \in 1..Len(ForecastYears) |->
                get_tesla_assumptions(scenario, ForecastYears[i]) ] } } : TRUE

\* enhanced_financial_calculator.py line 386: range(2024, 2034)
enhanced_forecast_years == <<2024, 2025, 2026, 2027, 2028, 2029, 2030, 2031, 2032, 2033>>

\* lines 389-393 with line 159: build_enhanced_financial_model reads the drivers
\* of its scenario for every forecast year; the model is kept as its scenario,
\* its years and these drivers
build_enhanced_financial_model(scenario) ==
  LET drivers_list ==
        [ i \in 1..Len(enhanced_forecast_years) |->
            get_enhanced_tesla_drivers(scenario, enhanced_forecast_years[i]) ]
  IN IF \E i \in 1..Len(drivers_list) : drivers_list[i].raised THEN KeyError
     ELSE [ raised |-> FALSE,
            scenario |-> scenario,
            forecast_years |-> enhanced_forecast_years,
            drivers |-> drivers_list ]

(***************************************************************************)
(* services/segment_analyzer.py: TeslaSegmentAnalyzer.calculate_revenue_   *)
(* bridge and calculate_cash_flow_bridge.  Deliveries are in hundreds of   *)
(* vehicles and ASPs in thousands of dollars, so that deliveries * asp is  *)
(* in the money unit.                                                      *)
(***************************************************************************)
HasKey(d, k) == k \in DOMAIN d

\* lines 106-115: sum over the models present in both years of
\* (current deliveries - base deliveries) * base asp
RECURSIVE volume_effect_of(_, _, _)
volume_effect_of(keys, current_models, base_models) ==
  IF keys = {} THEN 0
  ELSE LET model_key == CHOOSE k \in keys : TRUE
           delivery_change == current_models[model_key].deliveries
                              - base_models[model_key].deliveries
       IN (IF model_key \in DOMAIN base_models
           THEN delivery_change * base_models[model_key].asp ELSE 0)
          + volume_effect_of(keys \ {model_key}, current_models, base_models)

\* lines 106-119: sum over the same models of base deliveries * (current asp - base asp)
RECURSIVE price_effect_of(_, _, _)
price_effect_of(keys, current_models, base_models) ==
  IF keys = {} THEN 0
  ELSE LET model_key == CHOOSE k \in keys : TRUE
           asp_change == current_models[model_key].asp - base_models[model_key].asp
       IN (IF model_key \in DOMAIN base_models
           THEN base_models[model_key].deliveries * asp_change ELSE 0)
          + price_effect_of(keys \ {model_key}, current_models, base_models)

\* line 122: the residual
mix_effect_of(total_change, volume_effect, price_effect) ==
  total_change - volume_effect - price_effect

\* lines 125-126
segment_growth(current_year_data, base_year_data, key) ==
  DictGet(current_year_data, key, 0) - DictGet(base_year_data, key, 0)

\* lines 139-143: (component / abs(total_change)) * 100, in hundredths of a percent
contribution(component, total_change) ==
  IF total_change # 0 THEN MulDiv(component, 10000, Abs(total_change)) ELSE 0

calculate_revenue_bridge(base_year_data, current_year_data) ==
  LET base_revenue    == base_year_data.total_revenue
      current_revenue == current_year_data.total_revenue
      total_change    == current_revenue - base_revenue
      both == HasKey(current_year_data, "revenue_breakdown")
                /\ HasKey(base_year_data, "revenue_breakdown")
      current_models == current_year_data.revenue_breakdown.automotive_revenue_by_model
      base_models    == base_year_data.revenue_breakdown.automotive_revenue_by_model
      volume_effect == IF both THEN volume_effect_of(DOMAIN current_models, current_models, base_models)
                               ELSE 0
      price_effect  == IF both THEN price_effect_of(DOMAIN current_models, current_models, base_models)
                               ELSE 0
      mix_effect      == mix_effect_of(total_change, volume_effect, price_effect)
      energy_growth   == segment_growth(current_year_data, base_year_data, "energy_revenue")
      services_growth == segment_growth(current_year_data, base_year_data, "services_revenue")
  IN [ raised |-> FALSE,
       base_revenue |-> base_revenue,
       current_revenue |-> current_revenue,
       total_change |-> total_change,
       bridge_components |->
         [ volume_effect |-> volume_effect,
           price_effect |-> price_effect,
           mix_effect |-> mix_effect,
           energy_growth |-> energy_growth,
           services_growth |-> services_growth ],
       bridge_percentages |->
         [ volume_contribution   |-> contribution(volume_effect, total_change),
           price_contribution    |-> contribution(price_effect, total_change),
           mix_contribution      |-> contribution(mix_effect, total_change),
           energy_contribution   |-> contribution(energy_growth, total_change),
           services_contribution |-> contribution(services_growth, total_change) ] ]

\* other_items with the capex term of line 285 left out
other_items_without_capex(total_change, operating_change, working_capital_change, capex_change) ==
  total_change - operating_change - working_capital_change

\* line 285: the residual
other_items_of(total_change, operating_change, working_capital_change, capex_change) ==
  total_change - operating_change - working_capital_change - capex_change

\* lines 256-287
calculate_cash_flow_bridge(base_cash_flow, current_cash_flow, income_stmts) ==
  LET total_change == current_cash_flow - base_cash_flow
      estimated    == Len(income_stmts) >= 2
      current_stmt  == income_stmts[Len(income_stmts)]
      previous_stmt == income_stmts[Len(income_stmts) - 1]
      operating_change ==
        IF estimated THEN current_stmt.operating_income - previous_stmt.operating_income
                     ELSE MulBP(total_change, 7000)
      working_capital_change ==
        IF estimated THEN 0 - MulBP(Abs(operating_change), 1000)
                     ELSE MulBP(total_change, 1000)
      capex_change ==
        IF estimated THEN 0 - MulBP(current_stmt.automotive_revenue, 200)
                     ELSE MulBP(total_change, 2000)
  IN [ raised |-> FALSE,
       base_cash_flow |-> base_cash_flow,
       current_cash_flow |-> current_cash_flow,
       total_change |-> total_change,
       bridge_components |->
         [ operating_performance  |-> operating_change,
           working_capital_impact |-> working_capital_change,
           capex_investment       |-> capex_change,
           other_items |-> other_items_of(total_change, operating_change,
                                          working_capital_change, capex_change) ] ]

(***************************************************************************)
(* server.py: POST /tesla/model/{scenario}, and the state of one run of    *)
(* TeslaFinancialCalculator.build_complete_financial_model.                *)
(***************************************************************************)
VARIABLES
  pc,                    \* position of the request handler
  scenario_key,          \* the {scenario} path parameter as received
  base_year_data,        \* tesla_calculator.base_year_data
  all_assumptions,       \* build_complete_financial_model locals
  year_index,
  previous_income,
  previous_balance,
  income_statements,
  balance_sheets,
  cash_flow,
  cash_flow_statements,
  response,              \* what the handler returned, None while running
  call,                  \* a direct call of one calculator method: its arguments
  ret,                   \* and its result, None before the call
  tasks                  \* calls of the model builders in progress side by side:
                         \* each one's request, local variables and result

vars == << pc, scenario_key, base_year_data, all_assumptions, year_index,
           previous_income, previous_balance, income_statements, balance_sheets,
           cash_flow, cash_flow_statements, response, call, ret, tasks >>

build_vars == << all_assumptions, year_index, previous_income, previous_balance,
                 income_statements, balance_sheets, cash_flow, cash_flow_statements >>

\* the path parameters the model draws requests from
ScenarioKeys == {"best", "base", "worst", "BEST", "Base", "WORST", "medium", ""}

\* str.lower() on the keys above
lower(key) ==
  CASE key = "BEST"  -> "best"
    [] key = "Base"  -> "base"
    [] key = "WORST" -> "worst"
    [] OTHER         -> key

\* ScenarioType(value) raises ValueError for a value that is no member
IsScenario(value) == value \in ScenarioType

NoCall == [fn |-> "none"]

\* the calls that may be in progress at the same time
Tasks == {1, 2}

\* the local variables of one call of build_complete_financial_model (lines
\* 435-448) or build_enhanced_financial_model (lines 386-389) before it starts
NoLocals ==
  [ pc |-> "idle",
    all_assumptions |-> <<>>,
    year_index |-> 0,
    previous_income |-> None,
    previous_balance |-> None,
    income_statements |-> <<>>,
    balance_sheets |-> <<>>,
    cash_flow |-> None,
    cash_flow_statements |-> <<>>,
    drivers |-> <<>> ]

NoTask == [request |-> None, locals |-> NoLocals, result |-> None]

\* the server after start-up: calculators constructed, no request in progress
Idle ==
  /\ tasks = [t \in Tasks |-> NoTask]
  /\ pc = "idle"
  /\ scenario_key = ""
  /\ base_year_data = TESLA_BASE_YEAR_DATA
  /\ all_assumptions = <<>>
  /\ year_index = 0
  /\ previous_income = None
  /\ previous_balance = None
  /\ income_statements = <<>>
  /\ balance_sheets = <<>>
  /\ cash_flow = None
  /\ cash_flow_statements = <<>>
  /\ response = None

Init ==
  /\ Idle
  /\ call = NoCall
  /\ ret = None

\* server.py 500-505, 519-520 and financial_calculator.py 435-448
Request(key) ==
  /\ pc = "idle"
  /\ scenario_key' = key
  /\ IF IsScenario(lower(key))
     THEN /\ all_assumptions' =
               [ i \in 1..Len(ForecastYears) |->
                   get_tesla_assumptions(lower(key), ForecastYears[i]) ]
          /\ year_index' = 1
          /\ pc' = "income"
          /\ response' = None
     ELSE /\ all_assumptions' = <<>>
          /\ year_index' = 0
          /\ pc' = "done"
          /\ response' = Some([status |-> 400, success |-> FALSE])
  /\ previous_income' = None
  /\ previous_balance' = None
  /\ income_statements' = <<>>
  /\ balance_sheets' = <<>>
  /\ cash_flow' = None
  /\ cash_flow_statements' = <<>>
  /\ UNCHANGED << base_year_data, call, ret, tasks >>

\* financial_calculator.py 451-460; an exception leaves through server.py 521-522
CalcIncome ==
  /\ pc = "income"
  /\ LET prev_data ==
           IF ~IsNone(previous_income)
           THEN [ automotive_revenue |-> The(previous_income).automotive_revenue,
                  services_revenue   |-> The(previous_income).services_revenue ]
           ELSE EmptyDict
         income_stmt == calculate_income_statement(all_assumptions[year_index], prev_data)
     IN IF income_stmt.raised
        THEN /\ pc' = "done"
             /\ response' = Some([status |-> 500, success |-> FALSE])
             /\ UNCHANGED income_statements
        ELSE /\ pc' = "balance"
             /\ income_statements' = Append(income_statements, income_stmt)
             /\ UNCHANGED response
  /\ UNCHANGED << scenario_key, base_year_data, all_assumptions, year_index, previous_income,
                  previous_balance, balance_sheets, cash_flow, cash_flow_statements, call, ret, tasks >>

\* financial_calculator.py 462-465: the provisional balance sheet
CalcBalance ==
  /\ pc = "balance"
  /\ balance_sheets' =
       Append(balance_sheets,
              calculate_balance_sheet(all_assumptions[year_index],
                                      income_statements[year_index], previous_balance, None))
  /\ pc' = "cash_flow"
  /\ UNCHANGED << scenario_key, base_year_data, all_assumptions, year_index, previous_income,
                  previous_balance, income_statements, cash_flow, cash_flow_statements,
                  response, call, ret, tasks >>

\* financial_calculator.py 467-469
CalcCashFlow ==
  /\ pc = "cash_flow"
  /\ cash_flow' =
       Some(calculate_cash_flow_statement(all_assumptions[year_index],
                                          income_statements[year_index],
                                          balance_sheets[year_index], previous_balance))
  /\ pc' = "reconcile"
  /\ UNCHANGED << scenario_key, base_year_data, all_assumptions, year_index, previous_income,
                  previous_balance, income_statements, balance_sheets, cash_flow_statements,
                  response, call, ret, tasks >>

\* financial_calculator.py 471-489: the balance sheet object is the one already
\* in balance_sheets, so the list sees the update
Reconcile ==
  /\ pc = "reconcile"
  /\ LET balance_sheet == reconcile_cash(balance_sheets[year_index], The(cash_flow))
     IN /\ balance_sheets' = [balance_sheets EXCEPT ![year_index] = balance_sheet]
        /\ previous_balance' = Some(balance_sheet)
  /\ cash_flow_statements' = Append(cash_flow_statements, The(cash_flow))
  /\ previous_income' = Some(income_statements[year_index])
  /\ cash_flow' = None
  /\ IF year_index < Len(all_assumptions)
     THEN /\ year_index' = year_index + 1
          /\ pc' = "income"
     ELSE /\ year_index' = year_index
          /\ pc' = "dcf"
  /\ UNCHANGED << scenario_key, base_year_data, all_assumptions, income_statements,
                  response, call, ret, tasks >>

\* financial_calculator.py 491-502 and server.py 514-522
Valuation ==
  /\ pc = "dcf"
  /\ LET dcf_valuation ==
           calculate_dcf_valuation(lower(scenario_key), cash_flow_statements,
                                   all_assumptions[Len(all_assumptions)],
                                   balance_sheets[Len(balance_sheets)])
     IN response' =
          IF dcf_valuation.raised
          THEN Some([status |-> 500, success |-> FALSE])
          ELSE Some([ status |-> 200, success |-> TRUE,
                      model |-> [ scenario |-> lower(scenario_key),
                                  assumptions |-> all_assumptions,
                                  income_statements |-> income_statements,
                                  balance_sheets |-> balance_sheets,
                                  cash_flow_statements |-> cash_flow_statements,
                                  dcf_valuation |-> dcf_valuation ] ])
  /\ pc' = "done"
  /\ UNCHANGED << scenario_key, base_year_data, call, ret, tasks >>
  /\ UNCHANGED build_vars

\* the handler has returned; the server takes the next request
Return ==
  /\ pc = "done"
  /\ pc' = "idle"
  /\ scenario_key' = ""
  /\ all_assumptions' = <<>>
  /\ year_index' = 0
  /\ previous_income' = None
  /\ previous_balance' = None
  /\ income_statements' = <<>>
  /\ balance_sheets' = <<>>
  /\ cash_flow' = None
  /\ cash_flow_statements' = <<>>
  /\ response' = None
  /\ UNCHANGED << base_year_data, call, ret, tasks >>

Next ==
  \/ \E key \in ScenarioKeys : Request(key)
  \/ CalcIncome
  \/ CalcBalance
  \/ CalcCashFlow
  \/ Reconcile
  \/ Valuation
  \/ Return

Spec == Init /\ [][Next]_vars

server_vars == << pc, scenario_key, base_year_data, all_assumptions, year_index,
                  previous_income, previous_balance, income_statements, balance_sheets,
                  cash_flow, cash_flow_statements, response, tasks >>

(***************************************************************************)
(* Direct calls of the income-statement builders with arguments drawn from *)
(* bounded sets: the assumption table and assumptions that depart from it. *)
(***************************************************************************)
\* a TeslaAssumptions whose revenue growth or margins depart from the table
assumptions_variant(scenario, year, variant) ==
  LET a == get_tesla_assumptions(scenario, year)
  IN CASE variant = "table" -> a
       [] variant = "revenue_wiped" ->
            [a EXCEPT !.automotive_revenue_growth = 0 - 10000, !.services_revenue_growth = 0 - 10000]
       [] variant = "revenue_negative" ->
            [a EXCEPT !.automotive_revenue_growth = 0 - 15000, !.services_revenue_growth = 0 - 15000]
       [] variant = "loss" ->
            [a EXCEPT !.gross_margin_automotive = 0 - 3000, !.gross_margin_services = 0 - 3000]

AssumptionVariants == {"table", "revenue_wiped", "revenue_negative", "loss"}

PreviousYearInputs ==
  { EmptyDict,
    [automotive_revenue |-> 0, services_revenue |-> 0],
    [automotive_revenue |-> 989028],
    [automotive_revenue |-> 989028, services_revenue |-> 193779] }

IncomeStatementCalls ==
  { [ fn |-> "calculate_income_statement",
      assumptions |-> assumptions_variant(s, y, v),
      previous_year_data |-> p ] :
      s \in ScenarioType, y \in {2025, 2029}, v \in AssumptionVariants, p \in PreviousYearInputs }

EnhancedRevenueInputs == {0 - 5000, 0, 1000000}
EnhancedGrossProfitInputs == {0 - 5629, 0, 34371, 250000}

EnhancedIncomeStatementCalls ==
  { [ fn |-> "calculate_enhanced_income_statement",
      scenario |-> s,
      year |-> y,
      drivers |-> enhanced_financial_drivers(s, y),
      revenue_breakdown |-> [total_automotive_revenue |-> MulBP(rev, 8500), total_revenue |-> rev],
      margins |-> enhanced_margin_totals(rev, gp) ] :
      s \in ScenarioType, y \in {2024, 2028, 2033},
      rev \in EnhancedRevenueInputs, gp \in EnhancedGrossProfitInputs }

InitIncome ==
  /\ Idle
  /\ call \in IncomeStatementCalls \cup EnhancedIncomeStatementCalls
  /\ ret = None

CallIncomeStatement ==
  /\ call.fn = "calculate_income_statement"
  /\ IsNone(ret)
  /\ ret' = Some(calculate_income_statement(call.assumptions, call.previous_year_data))
  /\ UNCHANGED << server_vars, call >>

CallEnhancedIncomeStatement ==
  /\ call.fn = "calculate_enhanced_income_statement"
  /\ IsNone(ret)
  /\ ret' = Some(enhanced_income_statement(call.scenario, call.year, call.drivers,
                                           call.revenue_breakdown, call.margins))
  /\ UNCHANGED << server_vars, call >>

NextIncome == CallIncomeStatement \/ CallEnhancedIncomeStatement

SpecIncome == InitIncome /\ [][NextIncome]_vars

(***************************************************************************)
(* Direct calls of the two valuations with arguments drawn from bounded    *)
(* sets.                                                                   *)
(***************************************************************************)
MaxHorizon == 2

FreeCashFlowInputs == {0 - 20000, 0, 100000, 150000}

CashFlowPaths ==
  UNION { [1..n -> { [free_cash_flow |-> f] : f \in FreeCashFlowInputs }] : n \in 0..MaxHorizon }

\* final-year assumptions whose CAPM inputs depart from the table
ValuationAssumptions ==
  { [ get_tesla_assumptions("base", 2029) EXCEPT !.risk_free_rate = rf, !.beta_x100 = b ] :
      rf \in {100, 250, 430, 1000}, b \in {0, 230} }

FinalBalanceSheets ==
  { [ cash_and_equivalents |-> 1068838, long_term_debt |-> 56509,
      current_portion_debt |-> 6279, total_shareholders_equity |-> 983803 ],
    [ cash_and_equivalents |-> 1000, long_term_debt |-> 0,
      current_portion_debt |-> 0, total_shareholders_equity |-> 100000 ],
    [ cash_and_equivalents |-> 0, long_term_debt |-> 0,
      current_portion_debt |-> 0, total_shareholders_equity |-> 0 ] }

DcfCalls ==
  { [ fn |-> "calculate_dcf_valuation",
      scenario |-> "base",
      cash_flow_statements |-> cfs,
      final_year_assumptions |-> a,
      final_balance_sheet |-> b ] :
      cfs \in CashFlowPaths, a \in ValuationAssumptions, b \in FinalBalanceSheets }

\* enhanced income statements whose drivers carry the table's or other CAPM inputs
EnhancedDriverInputs ==
  { enhanced_financial_drivers("base", 2024),
    [ enhanced_financial_drivers("base", 2024) EXCEPT !.beta_x100 = 0 ],
    [ enhanced_financial_drivers("base", 2024) EXCEPT !.risk_free_rate = 100, !.beta_x100 = 0 ],
    [ enhanced_financial_drivers("base", 2024) EXCEPT
        !.risk_free_rate = 250, !.beta_x100 = 0, !.cost_of_debt = 500, !.tax_rate = 5000 ] }

EnhancedStatementInputs ==
  { enhanced_income_statement(
      "base", 2024, drivers,
      [total_automotive_revenue |-> 850000, total_revenue |-> 1000000],
      enhanced_margin_totals(1000000, gp)) :
      drivers \in EnhancedDriverInputs, gp \in {34371, 250000} }

EnhancedDcfCalls ==
  { [ fn |-> "calculate_enhanced_dcf_valuation",
      scenario |-> "base",
      income_statements |-> stmts ] :
      stmts \in UNION { [1..n -> EnhancedStatementInputs] : n \in 0..MaxHorizon } }

InitDcf ==
  /\ Idle
  /\ call \in DcfCalls \cup EnhancedDcfCalls
  /\ ret = None

CallDcfValuation ==
  /\ call.fn = "calculate_dcf_valuation"
  /\ IsNone(ret)
  /\ ret' = Some(calculate_dcf_valuation(call.scenario, call.cash_flow_statements,
                                         call.final_year_assumptions, call.final_balance_sheet))
  /\ UNCHANGED << server_vars, call >>

CallEnhancedDcfValuation ==
  /\ call.fn = "calculate_enhanced_dcf_valuation"
  /\ IsNone(ret)
  /\ ret' = Some(calculate_enhanced_dcf_valuation(call.scenario, call.income_statements))
  /\ UNCHANGED << server_vars, call >>

NextDcf == CallDcfValuation \/ CallEnhancedDcfValuation

SpecDcf == InitDcf /\ [][NextDcf]_vars

(***************************************************************************)
(* Direct calls of the two bridge functions of TeslaSegmentAnalyzer.       *)
(***************************************************************************)
\* automotive_revenue_by_model of a revenue breakdown
ModelLineups ==
  { [m \in {"model_3"} |-> [deliveries |-> 5000, asp |-> 45]],
    [m \in {"model_3", "cybertruck"} |->
       IF m = "model_3" THEN [deliveries |-> 6000, asp |-> 44]
                        ELSE [deliveries |-> 500, asp |-> 80]] }

RECURSIVE lineup_revenue(_, _)
lineup_revenue(keys, models) ==
  IF keys = {} THEN 0
  ELSE LET k == CHOOSE x \in keys : TRUE
       IN models[k].deliveries * models[k].asp + lineup_revenue(keys \ {k}, models)

\* an enhanced income statement, reduced to the keys the bridges read
bridge_statement(models, energy_revenue, services_revenue, operating_income) ==
  [ revenue_breakdown  |-> [automotive_revenue_by_model |-> models],
    automotive_revenue |-> lineup_revenue(DOMAIN models, models),
    energy_revenue     |-> energy_revenue,
    services_revenue   |-> services_revenue,
    total_revenue      |-> lineup_revenue(DOMAIN models, models)
                             + energy_revenue + services_revenue,
    operating_income   |-> operating_income ]

\* a plain dict with the totals only, as an aggregate statement has them
totals_statement(total_revenue, operating_income) ==
  [ automotive_revenue |-> total_revenue,
    total_revenue      |-> total_revenue,
    operating_income   |-> operating_income ]

BridgeStatements ==
  { bridge_statement(models, energy, services, 30000) :
      models \in ModelLineups, energy \in {0, 20000}, services \in {10000, 15000} }
  \cup { totals_statement(225000, 30000), totals_statement(300000, 0 - 10000) }

CashFlowBridgeStatements ==
  { bridge_statement([m \in {"model_3"} |-> [deliveries |-> 5000, asp |-> 45]], 0, 10000, oi) :
      oi \in {0 - 10000, 30000, 60000} }

BridgeCashFlowInputs == {0 - 5000, 0, 30001}

RevenueBridgeCalls ==
  { [ fn |-> "calculate_revenue_bridge",
      base_year_data |-> b,
      current_year_data |-> c ] : b \in BridgeStatements, c \in BridgeStatements }

CashFlowBridgeCalls ==
  { [ fn |-> "calculate_cash_flow_bridge",
      base_cash_flow |-> b,
      current_cash_flow |-> c,
      income_statements |-> stmts ] :
      b \in BridgeCashFlowInputs, c \in BridgeCashFlowInputs,
      stmts \in UNION { [1..n -> CashFlowBridgeStatements] : n \in 0..2 } }

InitBridge ==
  /\ Idle
  /\ call \in RevenueBridgeCalls \cup CashFlowBridgeCalls
  /\ ret = None

CallRevenueBridge ==
  /\ call.fn = "calculate_revenue_bridge"
  /\ IsNone(ret)
  /\ ret' = Some(calculate_revenue_bridge(call.base_year_data, call.current_year_data))
  /\ UNCHANGED call
  /\ UNCHANGED server_vars

CallCashFlowBridge ==
  /\ call.fn = "calculate_cash_flow_bridge"
  /\ IsNone(ret)
  /\ ret' = Some(calculate_cash_flow_bridge(call.base_cash_flow, call.current_cash_flow,
                                            call.income_statements))
  /\ UNCHANGED call
  /\ UNCHANGED server_vars

NextBridge == CallRevenueBridge \/ CallCashFlowBridge

SpecBridge == InitBridge /\ [][NextBridge]_vars

(***************************************************************************)
(* The entry points of server.py that take a {scenario} path parameter and *)
(* build a model, and direct calls of the two table functions.             *)
(***************************************************************************)
\* server.py 500, 524, 542, 560, 578, 655: built by tesla_calculator
AggregateEndpoints ==
  { "generate_financial_model", "get_income_statements", "get_balance_sheets",
    "get_cash_flows", "get_dcf_valuation", "get_sensitivity_analysis" }

\* server.py 236, 316, 383: built by enhanced_calculator
EnhancedEndpoints ==
  { "generate_enhanced_financial_model", "get_vehicle_model_analysis", "get_bridge_analysis" }

\* try: ScenarioType(scenario.lower()); build; return / except ValueError: 400 /
\* except Exception: 500
scenario_endpoint(endpoint, scenario) ==
  IF ~IsScenario(lower(scenario))
  THEN [status |-> 400, built |-> None]
  ELSE CHOOSE reply \in
         { IF model.raised THEN [status |-> 500, built |-> None]
                           ELSE [status |-> 200, built |-> Some(model)] :
             model \in { IF endpoint \in AggregateEndpoints
                         THEN build_complete_financial_model(lower(scenario))
                         ELSE build_enhanced_financial_model(lower(scenario)) } } : TRUE

\* values the table functions are called with: the members of ScenarioType and
\* values that are none
TableScenarioInputs == ScenarioType \cup {"medium", "BEST", ""}

EndpointCalls ==
  { [fn |-> e, scenario |-> key] :
      e \in AggregateEndpoints \cup EnhancedEndpoints, key \in ScenarioKeys }

AssumptionCalls ==
  { [fn |-> "get_tesla_assumptions", scenario |-> sc, year |-> y] :
      sc \in TableScenarioInputs, y \in 2024..2030 }

DriverCalls ==
  { [fn |-> "get_enhanced_tesla_drivers", scenario |-> sc, year |-> y] :
      sc \in TableScenarioInputs, y \in 2023..2034 }

InitScenario ==
  /\ Idle
  /\ call \in EndpointCalls \cup AssumptionCalls \cup DriverCalls
  /\ ret = None

CallEndpoint ==
  /\ call.fn \in AggregateEndpoints \cup EnhancedEndpoints
  /\ IsNone(ret)
  /\ ret' = Some(scenario_endpoint(call.fn, call.scenario))
  /\ UNCHANGED call
  /\ UNCHANGED server_vars

CallGetTeslaAssumptions ==
  /\ call.fn = "get_tesla_assumptions"
  /\ IsNone(ret)
  /\ ret' = Some(get_tesla_assumptions(call.scenario, call.year))
  /\ UNCHANGED call
  /\ UNCHANGED server_vars

CallGetEnhancedTeslaDrivers ==
  /\ call.fn = "get_enhanced_tesla_drivers"
  /\ IsNone(ret)
  /\ ret' = Some(get_enhanced_tesla_drivers(call.scenario, call.year))
  /\ UNCHANGED call
  /\ UNCHANGED server_vars

NextScenario == CallEndpoint \/ CallGetTeslaAssumptions \/ CallGetEnhancedTeslaDrivers

SpecScenario == InitScenario /\ [][NextScenario]_vars

(***************************************************************************)
(* Calls of build_complete_financial_model and build_enhanced_financial_   *)
(* model in progress at the same time on the calculators of server.py      *)
(* 46-48.  Every statement of the year loop is one step of its call; the    *)
(* steps of different calls interleave freely.                             *)
(***************************************************************************)
BuilderKinds == {"aggregate", "enhanced"}

\* every call works on the frame of a call whatever call is running
locals_of_first_call(running, t) == running[1].locals

\* financial_calculator.py 444-448, enhanced_financial_calculator.py 386-389:
\* the assumptions, the statement lists and the previous statements are local
\* variables, created by each call for itself
locals_of(running, t) == running[t].locals

\* financial_calculator.py 435-448 / enhanced_financial_calculator.py 382-389
TaskStart(t, kind, scenario) ==
  /\ IsNone(tasks[t].request)
  /\ tasks' =
       [ tasks EXCEPT ![t] =
           [ request |-> Some([kind |-> kind, scenario |-> scenario]),
             locals |->
               IF kind = "aggregate"
               THEN [ NoLocals EXCEPT
                        !.pc = "income",
                        !.year_index = 1,
                        !.all_assumptions =
                          [ i \in 1..Len(ForecastYears) |->
                              get_tesla_assumptions(scenario, ForecastYears[i]) ] ]
               ELSE [ NoLocals EXCEPT !.pc = "drivers", !.year_index = 1 ],
             result |-> None ] ]
  /\ UNCHANGED << pc, scenario_key, base_year_data, all_assumptions, year_index,
                  previous_income, previous_balance, income_statements, balance_sheets,
                  cash_flow, cash_flow_statements, response, call, ret >>

\* financial_calculator.py 451-460
TaskIncome(t) ==
  /\ ~IsNone(tasks[t].request)
  /\ LET l == locals_of(tasks, t)
         prev_data ==
           IF ~IsNone(l.previous_income)
           THEN [ automotive_revenue |-> The(l.previous_income).automotive_revenue,
                  services_revenue   |-> The(l.previous_income).services_revenue ]
           ELSE EmptyDict
         income_stmt == calculate_income_statement(l.all_assumptions[l.year_index], prev_data)
     IN /\ l.pc = "income"
        /\ tasks' =
             IF income_stmt.raised
             THEN [ tasks EXCEPT ![t].locals = [l EXCEPT !.pc = "done"],
                                 ![t].result = Some(ZeroDivisionError) ]
             ELSE [ tasks EXCEPT ![t].locals =
                      [ l EXCEPT !.pc = "balance",
                                 !.income_statements = Append(@, income_stmt) ] ]
  /\ UNCHANGED << pc, scenario_key, base_year_data, all_assumptions, year_index,
                  previous_income, previous_balance, income_statements, balance_sheets,
                  cash_flow, cash_flow_statements, response, call, ret >>

\* financial_calculator.py 462-465
TaskBalance(t) ==
  /\ ~IsNone(tasks[t].request)
  /\ LET l == locals_of(tasks, t)
     IN /\ l.pc = "balance"
        /\ tasks' =
             [ tasks EXCEPT ![t].locals =
                 [ l EXCEPT !.pc = "cash_flow",
                            !.balance_sheets =
                              Append(@, calculate_balance_sheet(
                                          l.all_assumptions[l.year_index],
                                          l.income_statements[l.year_index],
                                          l.previous_balance, None)) ] ]
  /\ UNCHANGED << pc, scenario_key, base_year_data, all_assumptions, year_index,
                  previous_income, previous_balance, income_statements, balance_sheets,
                  cash_flow, cash_flow_statements, response, call, ret >>

\* financial_calculator.py 467-469
TaskCashFlow(t) ==
  /\ ~IsNone(tasks[t].request)
  /\ LET l == locals_of(tasks, t)
     IN /\ l.pc = "cash_flow"
        /\ tasks' =
             [ tasks EXCEPT ![t].locals =
                 [ l EXCEPT !.pc = "reconcile",
                            !.cash_flow =
                              Some(calculate_cash_flow_statement(
                                     l.all_assumptions[l.year_index],
                                     l.income_statements[l.year_index],
                                     l.balance_sheets[l.year_index],
                                     l.previous_balance)) ] ]
  /\ UNCHANGED << pc, scenario_key, base_year_data, all_assumptions, year_index,
                  previous_income, previous_balance, income_statements, balance_sheets,
                  cash_flow, cash_flow_statements, response, call, ret >>

\* financial_calculator.py 471-489
TaskReconcile(t) ==
  /\ ~IsNone(tasks[t].request)
  /\ LET l == locals_of(tasks, t)
         balance_sheet == reconcile_cash(l.balance_sheets[l.year_index], The(l.cash_flow))
         last == l.year_index >= Len(l.all_assumptions)
     IN /\ l.pc = "reconcile"
        /\ tasks' =
             [ tasks EXCEPT ![t].locals =
                 [ l EXCEPT !.pc = IF last THEN "dcf" ELSE "income",
                            !.year_index = IF last THEN @ ELSE @ + 1,
                            !.balance_sheets = [@ EXCEPT ![l.year_index] = balance_sheet],
                            !.previous_balance = Some(balance_sheet),
                            !.previous_income = Some(l.income_statements[l.year_index]),
                            !.cash_flow_statements = Append(@, The(l.cash_flow)),
                            !.cash_flow = None ] ]
  /\ UNCHANGED << pc, scenario_key, base_year_data, all_assumptions, year_index,
                  previous_income, previous_balance, income_statements, balance_sheets,
                  cash_flow, cash_flow_statements, response, call, ret >>

\* financial_calculator.py 491-502: the valuation and the returned model
TaskValuation(t) ==
  /\ ~IsNone(tasks[t].request)
  /\ LET l == locals_of(tasks, t)
         scenario == l.all_assumptions[1].scenario
         dcf_valuation ==
           calculate_dcf_valuation(scenario, l.cash_flow_statements,
                                   l.all_assumptions[Len(l.all_assumptions)],
                                   l.balance_sheets[Len(l.balance_sheets)])
     IN /\ l.pc = "dcf"
        /\ tasks' =
             [ tasks EXCEPT
                 ![t].locals = [l EXCEPT !.pc = "done"],
                 ![t].result =
                   IF dcf_valuation.raised THEN Some(dcf_valuation)
                   ELSE Some([ raised |-> FALSE,
                               scenario |-> scenario,
                               assumptions |-> l.all_assumptions,
                               income_statements |-> l.income_statements,
                               balance_sheets |-> l.balance_sheets,
                               cash_flow_statements |-> l.cash_flow_statements,
                               dcf_valuation |-> dcf_valuation ]) ]
  /\ UNCHANGED << pc, scenario_key, base_year_data, all_assumptions, year_index,
                  previous_income, previous_balance, income_statements, balance_sheets,
                  cash_flow, cash_flow_statements, response, call, ret >>

\* enhanced_financial_calculator.py 389-393 with 156-159: one year of the
\* enhanced loop reads the drivers of the call's scenario; lines 395-411 return
\* the model after the last year
TaskEnhancedYear(t) ==
  /\ ~IsNone(tasks[t].request)
  /\ LET l == locals_of(tasks, t)
         scenario == The(tasks[t].request).scenario
         drivers == Append(l.drivers,
                           get_enhanced_tesla_drivers(scenario,
                                                      enhanced_forecast_years[l.year_index]))
         last == l.year_index >= Len(enhanced_forecast_years)
     IN /\ l.pc = "drivers"
        /\ tasks' =
             [ tasks EXCEPT
                 ![t].locals = [ l EXCEPT !.pc = IF last THEN "done" ELSE "drivers",
                                          !.year_index = IF last THEN @ ELSE @ + 1,
                                          !.drivers = drivers ],
                 ![t].result =
                   IF last
                   THEN Some([ raised |-> FALSE,
                               scenario |-> scenario,
                               forecast_years |-> enhanced_forecast_years,
                               drivers |-> drivers ])
                   ELSE None ]
  /\ UNCHANGED << pc, scenario_key, base_year_data, all_assumptions, year_index,
                  previous_income, previous_balance, income_statements, balance_sheets,
                  cash_flow, cash_flow_statements, response, call, ret >>

\* the call has returned and its frame is gone
TaskReturn(t) ==
  /\ ~IsNone(tasks[t].result)
  /\ tasks' = [tasks EXCEPT ![t] = NoTask]
  /\ UNCHANGED << pc, scenario_key, base_year_data, all_assumptions, year_index,
                  previous_income, previous_balance, income_statements, balance_sheets,
                  cash_flow, cash_flow_statements, response, call, ret >>

NextConcurrent ==
  \/ \E t \in Tasks, kind \in BuilderKinds, scenario \in ScenarioType :
       TaskStart(t, kind, scenario)
  \/ \E t \in Tasks : TaskIncome(t)
  \/ \E t \in Tasks : TaskBalance(t)
  \/ \E t \in Tasks : TaskCashFlow(t)
  \/ \E t \in Tasks : TaskReconcile(t)
  \/ \E t \in Tasks : TaskValuation(t)
  \/ \E t \in Tasks : TaskEnhancedYear(t)
  \/ \E t \in Tasks : TaskReturn(t)

SpecConcurrent == Init /\ [][NextConcurrent]_vars

(***************************************************************************)
(* Direct calls of calculate_driver_based_revenue and of                   *)
(* calculate_enhanced_margins: the drivers of every scenario and year, and *)
(* drivers whose delivery counts depart from the table.                    *)
(***************************************************************************)
DeliveryCountInputs == {1, 1249999, 1250000, 2000000}

\* the table's drivers, and drivers with one product line at a given count
DriverInputs ==
  { [drivers |-> get_enhanced_tesla_drivers(sc, y), year |-> y] :
      sc \in ScenarioType, y \in 2023..2033 }
  \cup
  { [ drivers |->
        [ get_enhanced_tesla_drivers(sc, 2024) EXCEPT
            !.projected_deliveries =
              [m \in DOMAIN base_deliveries_2023 |-> IF m = line THEN 2 * c ELSE 0] ],
      year |-> 2024 ] :
      sc \in ScenarioType, line \in {"model_3", "cybertruck"}, c \in DeliveryCountInputs }

InitDrivers ==
  /\ Idle
  /\ call \in { [fn |-> f, drivers |-> d.drivers, year |-> d.year] :
                  f \in {"calculate_driver_based_revenue", "calculate_enhanced_margins"},
                  d \in DriverInputs }
  /\ ret = None

CallDriverBasedRevenue ==
  /\ call.fn = "calculate_driver_based_revenue"
  /\ IsNone(ret)
  /\ ret' = Some(calculate_driver_based_revenue(call.drivers, call.year))
  /\ UNCHANGED << server_vars, call >>

\* enhanced_financial_calculator.py lines 160-164: the margins of the revenue
\* breakdown of the same drivers and year
CallEnhancedMargins ==
  /\ call.fn = "calculate_enhanced_margins"
  /\ IsNone(ret)
  /\ ret' = Some(calculate_enhanced_margins(
                   calculate_driver_based_revenue(call.drivers, call.year),
                   call.drivers, call.year))
  /\ UNCHANGED << server_vars, call >>

NextDrivers == CallDriverBasedRevenue \/ CallEnhancedMargins

SpecDrivers == InitDrivers /\ [][NextDrivers]_vars

(***************************************************************************)
(* Properties                                                              *)
(***************************************************************************)
\* a and b agree within a relative tolerance of 1e-6
WithinRelTol(a, b) == Abs(a - b) <= Max2(Abs(a), Abs(b)) \div 1000000

Balanced(bs) == WithinRelTol(bs.total_assets, bs.total_liabilities + bs.total_shareholders_equity)

Returned == ~IsNone(response) /\ The(response).status = 200

\* the cash-flow statements computed so far, the one not yet appended included
AllCashFlows == cash_flow_statements \o cash_flow

\* C1: in every returned FinancialModel every balance sheet satisfies
\* total_assets == total_liabilities + total_shareholders_equity within 1e-6.
C1_ReturnedSheetsBalance ==
  Returned =>
    \A t \in 1..Len(The(response).model.balance_sheets) :
      Balanced(The(response).model.balance_sheets[t])

\* C2: consecutive years chain their cash: ending_cash[t] = beginning_cash[t+1],
\* and the first year's beginning_cash is the base-year cash balance.
C2_CashContinuity ==
  /\ \A t \in 1..(Len(AllCashFlows) - 1) :
       AllCashFlows[t].ending_cash = AllCashFlows[t + 1].beginning_cash
  /\ Len(AllCashFlows) >= 1 => AllCashFlows[1].beginning_cash = 287000

C2_Witness ==
  /\ Returned
  /\ Len(The(response).model.cash_flow_statements) = 5
  /\ The(response).model.cash_flow_statements[2].beginning_cash
       = The(response).model.cash_flow_statements[1].ending_cash
  /\ The(response).model.cash_flow_statements[2].beginning_cash # 287000

\* C3: once a year's iteration has finished its balance sheet is final: cash is
\* the year's ending cash, the three totals are recomputed from it, and the
\* prior-year placeholder is gone.
C3_FinishedSheetsAreFinal ==
  \A t \in 1..Len(cash_flow_statements) :
    LET bs == balance_sheets[t]
        cf == cash_flow_statements[t]
    IN /\ bs.cash_and_equivalents = cf.ending_cash
       /\ bs.total_current_assets =
            bs.cash_and_equivalents + bs.accounts_receivable + bs.inventory
              + bs.prepaid_expenses + bs.other_current_assets
       /\ bs.total_assets = bs.total_current_assets + bs.total_non_current_assets
       /\ bs.total_liab_and_equity = bs.total_liabilities + bs.total_shareholders_equity
       /\ bs.cash_and_equivalents # cf.beginning_cash

C3_Witness ==
  /\ Returned
  /\ Len(cash_flow_statements) = 5
  /\ \A t \in 1..5 :
       The(response).model.balance_sheets[t].cash_and_equivalents
         = cash_flow_statements[t].ending_cash

\* C4: a reconciled balance sheet that violates the identity aborts the run with
\* an error; the run never carries on past it, nor returns it.
C4_UnbalancedSheetAborts ==
  (\E t \in 1..Len(cash_flow_statements) : ~Balanced(balance_sheets[t]))
    => (~IsNone(response) /\ The(response).status = 500)

\* C5: free_cash_flow = operating_cash_flow + capital_expenditures exactly, with
\* capital_expenditures the negative of total_revenue * capex_as_percent_revenue.
C5_FreeCashFlow ==
  \A t \in 1..Len(AllCashFlows) :
    /\ AllCashFlows[t].free_cash_flow =
         AllCashFlows[t].operating_cash_flow + AllCashFlows[t].capital_expenditures
    /\ AllCashFlows[t].capital_expenditures =
         0 - MulBP(income_statements[t].total_revenue,
                   all_assumptions[t].capex_as_percent_revenue)

C5_Witness ==
  \E t \in 1..Len(AllCashFlows) :
    /\ AllCashFlows[t].capital_expenditures < 0
    /\ AllCashFlows[t].free_cash_flow < AllCashFlows[t].operating_cash_flow

\* C6: net_change_cash = operating + investing + financing cash flow, ending_cash
\* = beginning_cash + net_change_cash, investing = capex, financing = 0.
C6_CashRollForward ==
  \A t \in 1..Len(AllCashFlows) :
    LET cf == AllCashFlows[t]
    IN /\ cf.net_change_cash =
            cf.operating_cash_flow + cf.investing_cash_flow + cf.financing_cash_flow
       /\ cf.ending_cash = cf.beginning_cash + cf.net_change_cash
       /\ cf.investing_cash_flow = cf.capital_expenditures
       /\ cf.acquisitions = 0 /\ cf.investments = 0
       /\ cf.financing_cash_flow = 0

C6_Witness ==
  \E t \in 1..Len(AllCashFlows) :
    /\ AllCashFlows[t].investing_cash_flow < 0
    /\ AllCashFlows[t].net_change_cash # AllCashFlows[t].operating_cash_flow
    /\ AllCashFlows[t].ending_cash # AllCashFlows[t].beginning_cash

IsIncomeCall == call.fn \in {"calculate_income_statement", "calculate_enhanced_income_statement"}

CallTaxRate ==
  IF call.fn = "calculate_income_statement" THEN call.assumptions.tax_rate
                                            ELSE call.drivers.tax_rate

\* C7: both income-statement builders charge no tax on pretax_income <= 0 (net
\* income is then pretax income), charge pretax_income * tax_rate on
\* pretax_income > 0, and always set net_income = pretax_income - tax.
C7_TaxOnlyOnPositiveIncome ==
  (IsIncomeCall /\ ~IsNone(ret) /\ ~The(ret).raised) =>
    LET r == The(ret)
    IN /\ r.pretax_income <= 0 =>
            (r.income_tax_expense = 0 /\ r.net_income = r.pretax_income)
       /\ r.pretax_income > 0 =>
            r.income_tax_expense = MulBP(r.pretax_income, CallTaxRate)
       /\ r.net_income = r.pretax_income - r.income_tax_expense

C7_Witness ==
  /\ call.fn = "calculate_income_statement"
  /\ ~IsNone(ret)
  /\ ~The(ret).raised
  /\ The(ret).pretax_income < 0
  /\ The(ret).income_tax_expense = 0
  /\ The(ret).net_income = The(ret).pretax_income

\* C8: the income-statement builders never raise on a degenerate ratio: with
\* total revenue <= 0 the three margins are 0, with shares <= 0 the EPS is 0.
C8_DegenerateRatiosAreZero ==
  (IsIncomeCall /\ ~IsNone(ret)) =>
    LET r == The(ret)
    IN /\ ~r.raised
       /\ r.total_revenue <= 0 =>
            (r.gross_margin = 0 /\ r.operating_margin = 0 /\ r.net_margin = 0)
       /\ r.shares_outstanding <= 0 => r.earnings_per_share = 0

IsDcfCall == call.fn \in {"calculate_dcf_valuation", "calculate_enhanced_dcf_valuation"}

\* the free cash flows and the WACC the called valuation works with
CallFreeCashFlows ==
  IF call.fn = "calculate_dcf_valuation"
  THEN free_cash_flows_of(call.cash_flow_statements)
  ELSE [ i \in 1..Len(call.income_statements) |->
           enhanced_free_cash_flow(call.income_statements[i], call.income_statements[1].drivers) ]

CallWacc ==
  IF call.fn = "calculate_dcf_valuation"
  THEN calculate_wacc(call.final_year_assumptions, call.final_balance_sheet).wacc
  ELSE enhanced_wacc(call.income_statements[1].drivers).wacc

\* C9: with WACC <= terminal growth (0.025) the headline valuation neither
\* raises a division error nor returns a terminal value obtained by dividing
\* by the non-positive WACC - g.
C9_WaccNotAboveGrowthIsHandled ==
  (IsDcfCall /\ ~IsNone(ret) /\ Len(CallFreeCashFlows) > 0 /\ CallWacc <= terminal_growth_rate) =>
    LET r == The(ret)
        final_year_fcf == CallFreeCashFlows[Len(CallFreeCashFlows)]
    IN /\ ~r.raised
       /\ (CallWacc < terminal_growth_rate /\ final_year_fcf # 0) =>
            r.terminal_value #
              Quot(MulBP(final_year_fcf, 10000 + terminal_growth_rate), 10000,
                   CallWacc - terminal_growth_rate)

\* the matrix of a returned valuation: 5 growth rows by 5 WACC columns, and the
\* sentinel 0 wherever the column's WACC is not above the row's growth
MatrixWellFormed(r) ==
  /\ r.sensitivity_growth_rates = <<150, 200, 250, 300, 350>>
  /\ r.sensitivity_wacc_rates =
       <<r.wacc - 100, r.wacc - 50, r.wacc, r.wacc + 50, r.wacc + 100>>
  /\ Len(r.sensitivity_matrix) = 5
  /\ \A g \in 1..5 :
       /\ Len(r.sensitivity_matrix[g]) = 5
       /\ \A w \in 1..5 :
            r.sensitivity_wacc_rates[w] <= r.sensitivity_growth_rates[g]
              => r.sensitivity_matrix[g][w] = 0

\* C10: whatever the base WACC, the valuation yields the 5 x 5 matrix with the
\* sentinel 0 in every cell whose WACC is not above its growth, and never raises.
C10_MatrixForEveryWacc ==
  (IsDcfCall /\ ~IsNone(ret) /\ Len(CallFreeCashFlows) > 0) =>
    (~The(ret).raised /\ MatrixWellFormed(The(ret)))

ValidCell(r, g, w) == r.sensitivity_wacc_rates[w] > r.sensitivity_growth_rates[g]

\* over valid cells: along a row the price falls as WACC rises, along a column
\* it rises as growth rises
MatrixMonotone(r) ==
  /\ \A g \in 1..5 : \A w1 \in 1..5 : \A w2 \in 1..5 :
       (w1 < w2 /\ ValidCell(r, g, w1) /\ ValidCell(r, g, w2))
         => r.sensitivity_matrix[g][w1] > r.sensitivity_matrix[g][w2]
  /\ \A w \in 1..5 : \A g1 \in 1..5 : \A g2 \in 1..5 :
       (g1 < g2 /\ ValidCell(r, g1, w) /\ ValidCell(r, g2, w))
         => r.sensitivity_matrix[g1][w] < r.sensitivity_matrix[g2][w]

ValuationReturned ==
  IsDcfCall /\ ~IsNone(ret) /\ Len(CallFreeCashFlows) > 0 /\ ~The(ret).raised

\* no negative free cash flow, and a positive one in the final year
PositivePath(fcfs) ==
  /\ \A i \in 1..Len(fcfs) : fcfs[i] >= 0
  /\ fcfs[Len(fcfs)] > 0

C12_RevenueBridgeSums ==
  (call.fn = "calculate_revenue_bridge" /\ ~IsNone(ret)) =>
    LET r == The(ret)
        c == r.bridge_components
    IN /\ r.total_change = call.current_year_data.total_revenue
                             - call.base_year_data.total_revenue
       /\ c.volume_effect + c.price_effect + c.mix_effect
            + c.energy_growth + c.services_growth = r.total_change

\* C13: the four components of the cash-flow bridge sum to total_change, which
\* is current_cash_flow - base_cash_flow, with fewer than two income statements
\* and with two or more.
C13_CashFlowBridgeSums ==
  (call.fn = "calculate_cash_flow_bridge" /\ ~IsNone(ret)) =>
    LET r == The(ret)
        c == r.bridge_components
    IN /\ r.total_change = call.current_cash_flow - call.base_cash_flow
       /\ c.operating_performance + c.working_capital_impact
            + c.capex_investment + c.other_items = r.total_change

C13_Witness ==
  /\ call.fn = "calculate_cash_flow_bridge"
  /\ ~IsNone(ret)
  /\ Len(call.income_statements) = 2
  /\ The(ret).total_change # 0
  /\ The(ret).bridge_components.operating_performance # 0
  /\ The(ret).bridge_components.capex_investment < 0
  /\ The(ret).bridge_components.other_items # 0

IsEndpointCall == call.fn \in AggregateEndpoints \cup EnhancedEndpoints

IsTableCall == call.fn \in {"get_tesla_assumptions", "get_enhanced_tesla_drivers"}

\* C14: a scenario key other than best/base/worst (in any case) makes every
\* model-building entry point answer with an error and no model, a model that
\* is returned is the one of the key's scenario, and the two table functions
\* raise for a scenario their tables do not hold.
C14_UnknownScenarioIsAnError ==
  /\ (IsEndpointCall /\ ~IsNone(ret) /\ lower(call.scenario) \notin ScenarioType) =>
       (The(ret).status >= 400 /\ IsNone(The(ret).built))
  /\ (IsEndpointCall /\ ~IsNone(ret) /\ ~IsNone(The(ret).built)) =>
       /\ lower(call.scenario) \in ScenarioType
       /\ The(The(ret).built).scenario = lower(call.scenario)
  /\ (IsTableCall /\ ~IsNone(ret) /\ call.scenario \notin ScenarioType) =>
       The(ret).raised

C14_Witness ==
  /\ call.fn = "get_enhanced_tesla_drivers"
  /\ call.scenario = "medium"
  /\ ~IsNone(ret)
  /\ The(ret) = KeyError

\* C20: for a year without a growth rate in the delivery table (any year after
\* 2029), get_enhanced_tesla_drivers keeps every model's count at the one
\* projected for the latest earlier year with a rate, so the count of year y + 1
\* never differs from the count of year y.
C20_UnlistedYearKeepsLastCount ==
  (call.fn = "get_enhanced_tesla_drivers" /\ ~IsNone(ret) /\ ~The(ret).raised
     /\ call.year > 2029) =>
    /\ The(ret).projected_deliveries
         = get_enhanced_tesla_drivers(call.scenario, 2029).projected_deliveries
    /\ The(ret).projected_deliveries
         = get_enhanced_tesla_drivers(call.scenario, call.year - 1).projected_deliveries

\* the value the call of task t returns when it is the only call running
RunAlone(request) ==
  IF request.kind = "aggregate"
  THEN build_complete_financial_model(request.scenario)
  ELSE build_enhanced_financial_model(request.scenario)

\* C15: whatever the interleaving of concurrent model builds on the shared
\* calculators, every call returns the statement values it returns when run
\* alone, and the calculator's base-year data is never modified
C15_ConcurrentBuildsIndependent ==
  /\ base_year_data = TESLA_BASE_YEAR_DATA
  /\ \A t \in Tasks :
       ~IsNone(tasks[t].result)
         => The(tasks[t].result) = RunAlone(The(tasks[t].request))

\* two calls for different scenarios overlap: one has returned its model while
\* the other is in the middle of its year loop
C15_Witness ==
  \E t, u \in Tasks :
    /\ t # u
    /\ ~IsNone(tasks[t].result) /\ ~IsNone(tasks[u].request)
    /\ The(tasks[t].request).kind = "aggregate"
    /\ ~The(tasks[t].result).raised
    /\ The(tasks[t].request).scenario # The(tasks[u].request).scenario
    /\ tasks[u].locals.pc \in {"balance", "cash_flow", "reconcile", "drivers"}
    /\ tasks[u].locals.year_index > 1

\* revenue of the year before forecast year i: the historical base for the
\* first year, the previous projected statement afterwards
PriorRevenue(i, field) ==
  IF i = 1 THEN TESLA_BASE_YEAR_DATA[field] ELSE income_statements[i - 1][field]

\* current = prior * (1 + growth), growth in basis points, rounded down
Compounds(current, prior, growth) == current = prior + MulDiv(prior, growth, 10000)

\* C16: every projected automotive and services revenue is the previous year's
\* revenue times (1 + that year's growth assumption), the first year starting
\* from the historical base; BASE 2025 is 98,902,800,000 and 19,377,900,000
C16_RevenueCompounds ==
  /\ \A i \in 1..Len(income_statements) :
       /\ Compounds(income_statements[i].automotive_revenue,
                    PriorRevenue(i, "automotive_revenue"),
                    all_assumptions[i].automotive_revenue_growth)
       /\ Compounds(income_statements[i].services_revenue,
                    PriorRevenue(i, "services_revenue"),
                    all_assumptions[i].services_revenue_growth)
  /\ (lower(scenario_key) = "base" /\ Len(income_statements) >= 1)
       => /\ income_statements[1].automotive_revenue = 989028
          /\ income_statements[1].services_revenue = 193779

\* the BASE model with all five years projected
C16_Witness ==
  /\ lower(scenario_key) = "base"
  /\ Len(income_statements) = Len(ForecastYears)
  /\ income_statements[1].automotive_revenue = 989028
  /\ income_statements[2].automotive_revenue > income_statements[1].automotive_revenue

\* C18: in the first forecast year, with no previous balance sheet, the operating
\* cash flow is net income + depreciation and amortization + stock-based
\* compensation - accounts receivable - inventory + accounts payable
C18_FirstYearOperatingCashFlow ==
  Len(cash_flow_statements) >= 1
    => LET cf == cash_flow_statements[1]
           bs == balance_sheets[1]
       IN cf.operating_cash_flow =
            cf.net_income + cf.depreciation_amortization + cf.stock_based_compensation
              - bs.accounts_receivable - bs.inventory + bs.accounts_payable

\* total debt at the end of the year before forecast year i
PriorTotalDebt(i) ==
  IF i = 1 THEN TESLA_BASE_YEAR_DATA.total_debt
  ELSE balance_sheets[i - 1].current_portion_debt + balance_sheets[i - 1].long_term_debt

\* C19: every year the current portion is 10% of the previous year's total debt
\* and long-term debt is the remainder, so that total debt stays at the
\* base-year total in every forecast year
C19_TotalDebtConstant ==
  \A i \in 1..Len(balance_sheets) :
    /\ balance_sheets[i].current_portion_debt = MulBP(PriorTotalDebt(i), 1000)
    /\ balance_sheets[i].long_term_debt =
         PriorTotalDebt(i) - balance_sheets[i].current_portion_debt
    /\ balance_sheets[i].current_portion_debt + balance_sheets[i].long_term_debt
         = TESLA_BASE_YEAR_DATA.total_debt

\* C17: when WACC exceeds the terminal growth rate g = 0.025, the terminal value
\* of both valuations is the final-year free cash flow * (1 + g) / (WACC - g);
\* WACC 0.10 and a final free cash flow of 10,000,000,000 give 136,666,666,667
\* (1366666 in the model's unit of $100,000, to within one unit)
C17_TerminalValueFormula ==
  (ValuationReturned /\ CallWacc > terminal_growth_rate) =>
    LET r == The(ret)
        final_year_fcf == CallFreeCashFlows[Len(CallFreeCashFlows)]
    IN /\ r.terminal_growth_rate = 250
       /\ r.terminal_value =
            ((final_year_fcf + MulDiv(final_year_fcf, 250, 10000)) \div (CallWacc - 250)) * 10000
            + (((final_year_fcf + MulDiv(final_year_fcf, 250, 10000)) % (CallWacc - 250)) * 10000)
                \div (CallWacc - 250)
       /\ (CallWacc = 1000 /\ final_year_fcf = 100000)
            => Abs(r.terminal_value - 1366666) <= 1

\* a valuation at WACC 0.10 whose final free cash flow is 10,000,000,000
C17_Witness ==
  /\ ValuationReturned
  /\ CallWacc = 1000
  /\ CallFreeCashFlows[Len(CallFreeCashFlows)] = 100000
  /\ The(ret).terminal_value = 1366666

\* the price of a valid sensitivity cell when the terminal value is discounted
\* over n years
CellDiscountedOver(r, g, w, n) ==
  LET growth == r.sensitivity_growth_rates[g]
      discount_rate == r.sensitivity_wacc_rates[w]
      fcfs == r.projected_free_cash_flows
  IN price_of(present_value_of(fcfs, discount_rate, 1)
                + discount(Quot(MulBP(fcfs[Len(fcfs)], 10000 + growth), 10000,
                                discount_rate - growth),
                           discount_rate, n)
                + r.net_cash,
              r.shares_outstanding)

\* C21: in both valuations the terminal value is discounted over N years, N the
\* number of free cash flows passed in, for every N >= 1, and every valid cell
\* of the sensitivity matrix discounts its terminal value over the same N
C21_TerminalDiscountedOverHorizon ==
  ValuationReturned =>
    LET r == The(ret)
        N == Len(r.projected_free_cash_flows)
    IN /\ r.present_value_terminal = discount(r.terminal_value, r.wacc, N)
       /\ \A g \in 1..5 : \A w \in 1..5 :
            ValidCell(r, g, w) => r.sensitivity_matrix[g][w] = CellDiscountedOver(r, g, w, N)

\* C22: every product-line entry of the revenue breakdown has revenue equal to
\* its reported deliveries times its reported asp, for every scenario and every
\* year 2024-2033, and total_automotive_revenue is the sum of the entries
C22_RevenueIsDeliveriesTimesAsp ==
  (call.fn = "calculate_driver_based_revenue" /\ ~IsNone(ret) /\ call.year >= 2024
     /\ call.drivers = get_enhanced_tesla_drivers(call.drivers.scenario, call.year)) =>
    LET by_model == The(ret).automotive_revenue_by_model
    IN /\ \A m \in DOMAIN by_model :
            by_model[m].revenue = MulDiv(2 * by_model[m].deliveries, by_model[m].asp, 8000)
       /\ The(ret).total_automotive_revenue
            = sum_over_models(DOMAIN by_model, by_model, "revenue")

\* C25: for every product line, scenario and delivery count the scale benefit
\* is at most 0.05 and the final margin at most 0.35, so that automotive COGS is
\* at least 0.65 of automotive revenue and the blended margin is at most 0.35
C25_MarginsCapped ==
  (call.fn = "calculate_enhanced_margins" /\ ~IsNone(ret)) =>
    LET r == The(ret)
        revenue == calculate_driver_based_revenue(call.drivers, call.year)
    IN /\ \A m \in DOMAIN r.model_margins :
            /\ r.model_margins[m] <= 3500
            /\ r.model_margins[m]
                 - (VEHICLE_MODEL_DATA[m].margin_premium
                    + call.drivers.automotive_margin_improvement) <= 500
       /\ r.automotive_cogs >= revenue.total_automotive_revenue
                               - MulBP(revenue.total_automotive_revenue, 3500)
       /\ r.automotive_margin <= 3500

\* a product line above 1,250,000 deliveries, where the ceiling of the scale
\* benefit binds, and one whose margin reaches the overall ceiling
C25_Witness ==
  /\ call.fn = "calculate_enhanced_margins" /\ ~IsNone(ret)
  /\ call.drivers.projected_deliveries["cybertruck"] = 2 * 2000000
  /\ The(ret).model_margins["cybertruck"] = 3500
  /\ The(ret).automotive_margin > 0

\* net PPE at the end of the year before forecast year i
PriorNetPpe(i) == IF i = 1 THEN 500000 ELSE balance_sheets[i - 1].net_ppe

\* C23: for every forecast year net_ppe = prior net_ppe + capex - depreciation,
\* with capex = total_revenue * capex rate and depreciation = prior net_ppe *
\* depreciation rate (prior net PPE 50,000,000,000 in the first year), and the
\* cash-flow statement of the year reports the same two amounts
C23_FixedAssetsRollForward ==
  \A i \in 1..Len(cash_flow_statements) :
    LET capex == MulBP(income_statements[i].total_revenue,
                       all_assumptions[i].capex_as_percent_revenue)
        depreciation == MulBP(PriorNetPpe(i), all_assumptions[i].depreciation_rate)
    IN /\ balance_sheets[i].net_ppe = PriorNetPpe(i) + capex - depreciation
       /\ cash_flow_statements[i].capital_expenditures = 0 - capex
       /\ cash_flow_statements[i].depreciation_amortization = depreciation
       /\ balance_sheets[i].net_ppe - PriorNetPpe(i)
            = 0 - cash_flow_statements[i].capital_expenditures
              - cash_flow_statements[i].depreciation_amortization

\* all five years rolled forward, PPE growing from the 50,000,000,000 base
C23_Witness ==
  /\ Len(cash_flow_statements) = Len(ForecastYears)
  /\ balance_sheets[1].net_ppe > 500000
  /\ balance_sheets[5].net_ppe > balance_sheets[4].net_ppe
  /\ cash_flow_statements[5].depreciation_amortization > 0

\* retained earnings at the end of the year before forecast year i
PriorRetainedEarnings(i) == IF i = 1 THEN 200000 ELSE balance_sheets[i - 1].retained_earnings

RECURSIVE NetIncomeUpTo(_)
NetIncomeUpTo(i) == IF i = 0 THEN 0 ELSE income_statements[i].net_income + NetIncomeUpTo(i - 1)

\* C24: for every forecast year retained_earnings = prior retained earnings +
\* net income of the year (20,000,000,000 before the first year), hence the
\* base plus the net income of all years so far
C24_RetainedEarningsRollForward ==
  \A i \in 1..Len(balance_sheets) :
    /\ balance_sheets[i].retained_earnings
         = PriorRetainedEarnings(i) + income_statements[i].net_income
    /\ balance_sheets[i].retained_earnings = 200000 + NetIncomeUpTo(i)

C24_Witness ==
  /\ Len(balance_sheets) = Len(ForecastYears)
  /\ Len(cash_flow_statements) = Len(ForecastYears)
  /\ balance_sheets[5].retained_earnings > balance_sheets[1].retained_earnings
  /\ income_statements[5].net_income > 0

\* the fields of a balance sheet that the cash reconciliation may rewrite
ReconciledFields ==
  {"cash_and_equivalents", "total_current_assets", "total_assets", "total_liab_and_equity"}

\* statement i of list is the same after the step, as long as the call that
\* built it is still running
Kept(before, after, i) == i <= Len(after) => after[i] = before[i]

\* one step of the handler modifies no statement it has built, except that the
\* reconciliation rewrites the reconciled fields of the current year's sheet
StatementsFramed ==
  /\ \A i \in 1..Len(income_statements) : Kept(income_statements, income_statements', i)
  /\ \A i \in 1..Len(cash_flow_statements) :
       /\ Kept(cash_flow_statements, cash_flow_statements', i)
       /\ Kept(balance_sheets, balance_sheets', i)
  /\ \A i \in 1..Len(balance_sheets) :
       i <= Len(balance_sheets') =>
         /\ balance_sheets'[i] # balance_sheets[i]
              => (pc = "reconcile" /\ i = year_index /\ i = Len(balance_sheets))
         /\ \A f \in DOMAIN balance_sheets[i] \ ReconciledFields :
              balance_sheets'[i][f] = balance_sheets[i][f]

\* C26: once the iteration of a year has finished, its three statements are
\* never modified by a later iteration or by the valuation; the only
\* modification of a built statement is the cash reconciliation of the current
\* year's balance sheet, which leaves every other field of it unchanged
C26_StatementsFrozen == [][StatementsFramed]_vars

\* the reconciliation has rewritten the cash of the second year's sheet while
\* the first year's statements are in the lists
C26_Witness ==
  /\ pc = "income"
  /\ year_index = 3
  /\ balance_sheets[2].cash_and_equivalents # balance_sheets[1].cash_and_equivalents
  /\ balance_sheets[2].cash_and_equivalents = cash_flow_statements[2].ending_cash

RECURSIVE FreeCashFlowUpTo(_)
FreeCashFlowUpTo(i) ==
  IF i = 0 THEN 0 ELSE cash_flow_statements[i].free_cash_flow + FreeCashFlowUpTo(i - 1)

\* C27: for every finished forecast year the balance-sheet cash is the
\* base-year cash (28,700,000,000) plus the free cash flow of all forecast years
\* up to it, each year's net_change_cash being that year's free_cash_flow
C27_CashIsBasePlusFreeCashFlows ==
  \A i \in 1..Len(cash_flow_statements) :
    /\ cash_flow_statements[i].net_change_cash = cash_flow_statements[i].free_cash_flow
    /\ balance_sheets[i].cash_and_equivalents = 287000 + FreeCashFlowUpTo(i)

C27_Witness ==
  /\ Len(cash_flow_statements) = Len(ForecastYears)
  /\ pc = "dcf"
  /\ balance_sheets[5].cash_and_equivalents = 287000 + FreeCashFlowUpTo(5)
  /\ \A i \in 1..5 : cash_flow_statements[i].free_cash_flow > 0

\* C28: whenever the WACC is above 0.025, the centre cell of the sensitivity
\* matrix (growth 0.025, unshifted WACC) equals the headline price_per_share of
\* the same valuation, in both calculators
C28_CentreCellIsHeadlinePrice ==
  (ValuationReturned /\ CallWacc > terminal_growth_rate) =>
    /\ The(ret).sensitivity_growth_rates[3] = 250
    /\ The(ret).sensitivity_wacc_rates[3] = The(ret).wacc
    /\ The(ret).sensitivity_matrix[3][3] = The(ret).price_per_share

C28_Witness ==
  /\ ValuationReturned
  /\ CallWacc > terminal_growth_rate
  /\ The(ret).net_cash # 0
  /\ The(ret).price_per_share > 0
  /\ The(ret).sensitivity_matrix[3][3] = The(ret).price_per_share
  /\ The(ret).sensitivity_matrix[3][2] # The(ret).price_per_share

PriorBalance(i) == IF i = 1 THEN None ELSE Some(balance_sheets[i - 1])

\* the sheet of year i as calculate_balance_sheet returns it without a cash-flow
\* statement: the cash is the placeholder carried from the prior year
ProvisionalSheet(i) ==
  calculate_balance_sheet(all_assumptions[i], income_statements[i], PriorBalance(i), None)

\* a provisional sheet holding another cash placeholder, its totals following
WithPlaceholder(sheet, cash) ==
  [ sheet EXCEPT
      !.cash_and_equivalents = cash,
      !.total_current_assets = current_assets_total(cash, sheet),
      !.total_assets = current_assets_total(cash, sheet) + sheet.total_non_current_assets ]

CashPlaceholders == {0 - 100000, 0, 287000, 1000000}

\* C29: for every finished year, calculate_balance_sheet called with the year's
\* cash-flow statement returns exactly the sheet obtained by the provisional
\* sheet followed by the in-place reconciliation (cash_and_equivalents,
\* total_current_assets, total_assets, total_liab_and_equity and every other
\* field), and the cash-flow statement computed from the provisional sheet is
\* the same whatever cash placeholder that sheet holds
C29_FinalizationsAgree ==
  \A i \in 1..Len(cash_flow_statements) :
    /\ calculate_balance_sheet(all_assumptions[i], income_statements[i], PriorBalance(i),
                               Some(cash_flow_statements[i]))
         = balance_sheets[i]
    /\ reconcile_cash(ProvisionalSheet(i), cash_flow_statements[i]) = balance_sheets[i]
    /\ \A cash \in CashPlaceholders :
         calculate_cash_flow_statement(all_assumptions[i], income_statements[i],
                                       WithPlaceholder(ProvisionalSheet(i), cash),
                                       PriorBalance(i))
           = cash_flow_statements[i]

\* two years are finished, and the second one's reconciled cash differs from
\* the placeholder its provisional sheet held
C29_Witness ==
  /\ Len(cash_flow_statements) >= 2
  /\ ProvisionalSheet(2).cash_and_equivalents = balance_sheets[1].cash_and_equivalents
  /\ balance_sheets[2].cash_and_equivalents # ProvisionalSheet(2).cash_and_equivalents
  /\ balance_sheets[2].total_assets # ProvisionalSheet(2).total_assets
  /\ calculate_balance_sheet(all_assumptions[2], income_statements[2], PriorBalance(2),
                             Some(cash_flow_statements[2])) = balance_sheets[2]

ModelReturned ==
  /\ pc = "done"
  /\ ~IsNone(response)
  /\ The(response).success

\* the model of a scenario: the one the handler has just returned when it is
\* that scenario's, the one build_complete_financial_model builds otherwise
ModelFor(scenario) ==
  IF The(response).model.scenario = scenario
  THEN The(response).model
  ELSE build_complete_financial_model(scenario)

TotalRevenue(scenario, i) == ModelFor(scenario).income_statements[i].total_revenue

\* C30: in every forecast year 2025-2029 the total revenue of the BEST model is
\* at least that of the BASE model, which is at least that of the WORST model,
\* and neither gap is smaller than it was the year before
C30_ScenariosOrdered ==
  ModelReturned =>
    /\ \A i \in 1..Len(ForecastYears) :
         /\ TotalRevenue("best", i) >= TotalRevenue("base", i)
         /\ TotalRevenue("base", i) >= TotalRevenue("worst", i)
    /\ \A i \in 2..Len(ForecastYears) :
         /\ TotalRevenue("best", i) - TotalRevenue("base", i)
              >= TotalRevenue("best", i - 1) - TotalRevenue("base", i - 1)
         /\ TotalRevenue("base", i) - TotalRevenue("worst", i)
              >= TotalRevenue("base", i - 1) - TotalRevenue("worst", i - 1)

\* the handler has returned the BASE model, strictly between the other two in
\* the first year and further from both in the last
C30_Witness ==
  /\ ModelReturned
  /\ The(response).model.scenario = "base"
  /\ Len(The(response).model.income_statements) = Len(ForecastYears)
  /\ TotalRevenue("best", 1) > TotalRevenue("base", 1)
  /\ TotalRevenue("base", 1) > TotalRevenue("worst", 1)
  /\ TotalRevenue("best", 5) - TotalRevenue("base", 5)
       > TotalRevenue("best", 1) - TotalRevenue("base", 1)
  /\ TotalRevenue("base", 5) - TotalRevenue("worst", 5)
       > TotalRevenue("base", 1) - TotalRevenue("worst", 1)

====
